---- MODULE Spec2Model ----
(***************************************************************************)
(* State-machine model of the MCP server core of InstantNeo                *)
(* (src/instantneo/mcp): the JSON-RPC dispatch of InstantMCPServer, the    *)
(* lifecycle and tool handlers, the session table with its cleanup thread, *)
(* and the session-close endpoint of the HTTP transport.                   *)
(*                                                                         *)
(* The specifications share the variables:                                 *)
(*   Spec      handle_message on every kind of message, one caller;        *)
(*   SpecLife  the life of the server and of its sessions: start, stop,    *)
(*             initialize, session close and the cleanup sweep, each one   *)
(*             atomic action;                                              *)
(*   SpecConc  the transport threads and the cleanup thread interleave at  *)
(*             the granularity of their accesses to the session table;     *)
(*   SpecPage  a client that follows nextCursor over tools/list;           *)
(*   SpecList  tools/list with every kind of cursor;                       *)
(*   SpecWire  handle_message on the strings the transports give it;       *)
(*   SpecAuth  POST /mcp with the API key authentication enabled;          *)
(*   SpecStdio the loop of the stdio transport over the lines of stdin;    *)
(*   SpecSse   the SSE streams of GET /mcp;                                *)
(*   SpecTools get_tools and its cache;                                    *)
(*   SpecConv  the converter of type tokens.                               *)
(***************************************************************************)
EXTENDS Integers, Sequences, FiniteSets, TLC

VARIABLES
    running,      \* InstantMCPServer.running
    sessions,     \* InstantMCPServer.sessions: n |-> session record, n standing for the key "session_<n>"
    tools_cache,  \* InstantMCPServer.tools_cache: [set, tools]; set = FALSE is None
    skills,       \* the skill registry behind InstantMCPServer.skill_manager
    config,       \* InstantMCPServer.config (the entries the core reads)
    transports,   \* InstantMCPServer.transports: list of started transports
    cleaners,     \* the cleanup threads created by _setup_cleanup, in creation order
    now,          \* the clock read by time.time()
    out,          \* what the last operation was given and what it returned
    thr,          \* SpecConc: position of each transport thread inside a handler
    pg,           \* SpecPage: the paginating client
    io,           \* SpecStdio: sys.stdin, the buffer of _stdio_loop and sys.stdout
    sse           \* SpecSse: FastAPITransport.sse_connections and the streams of GET /mcp

vars == <<running, sessions, tools_cache, skills, config, transports, cleaners, now, out, thr, pg, io, sse>>

(***************************************************************************)
(* Bounds of the model                                                     *)
(***************************************************************************)
MaxTime == 2
MaxSessions == 2
MaxCleaners == 2
MaxTools == 3
MaxPageSize == 3

\* the longest batch
MaxBatch == 3
SessionTimeout == 1
CleanupInterval == 1

\* the lines a client writes on the stdin of the server
MaxLines == 3

\* how deep the generic types inside a Union are nested, and the most members
\* a Union has
MaxNest == 1
MaxMembers == 2

\* the SSE connections, the messages put into the queue of one connection,
\* and the waits of one connection that time out
MaxConns == 2
MaxMsgs == 2
MaxKeepAlives == 1

(***************************************************************************)
(* Program constants                                                       *)
(***************************************************************************)
PARSE_ERROR == -32700
METHOD_NOT_FOUND == -32601
INVALID_PARAMS == -32602
INTERNAL_ERROR == -32603
DefaultPageSize == 100

(***************************************************************************)
(* Small helpers                                                           *)
(***************************************************************************)
Min(a, b) == IF a < b THEN a ELSE b

Max(a, b) == IF a < b THEN b ELSE a

Range(s) == {s[i] : i \in 1..Len(s)}

RECURSIVE SeqOfSet(_)
SeqOfSet(S) ==
    IF S = {} THEN <<>>
    ELSE LET m == CHOOSE x \in S : \A y \in S : x <= y
         IN <<m>> \o SeqOfSet(S \ {m})

(***************************************************************************)
(* Text and numbers.  A Python str is a sequence of one-character strings. *)
(***************************************************************************)
Digits == <<"0", "1", "2", "3", "4", "5", "6", "7", "8", "9">>

DigitVal(c) == (CHOOSE i \in 1..10 : Digits[i] = c) - 1

IsDigit(c) == \E i \in 1..10 : Digits[i] = c

RECURSIVE NatStr(_)
NatStr(n) ==
    IF n < 10 THEN <<Digits[n + 1]>>
    ELSE NatStr(n \div 10) \o <<Digits[(n % 10) + 1]>>

\* str(n) for an int
PyStr(n) == IF n < 0 THEN <<"-">> \o NatStr(0 - n) ELSE NatStr(n)

RECURSIVE DigitsVal(_, _)
DigitsVal(s, acc) ==
    IF s = <<>> THEN acc
    ELSE DigitsVal(Tail(s), acc * 10 + DigitVal(Head(s)))

RECURSIVE StripLeft(_)
StripLeft(s) ==
    IF s # <<>> /\ Head(s) = " " THEN StripLeft(Tail(s)) ELSE s

RECURSIVE StripRight(_)
StripRight(s) ==
    IF s # <<>> /\ s[Len(s)] = " " THEN StripRight(SubSeq(s, 1, Len(s) - 1)) ELSE s

\* the digits of s, its underscores dropped
RECURSIVE DropUnderscores(_)
DropUnderscores(s) ==
    IF s = <<>> THEN <<>>
    ELSE (IF Head(s) = "_" THEN <<>> ELSE <<Head(s)>>) \o DropUnderscores(Tail(s))

\* what int() accepts after the sign: decimal digits with single underscores
\* between them
IsIntBody(body) ==
    /\ body # <<>>
    /\ \A i \in 1..Len(body) : IsDigit(body[i]) \/ body[i] = "_"
    /\ IsDigit(body[1]) /\ IsDigit(body[Len(body)])
    /\ \A i \in 1..(Len(body) - 1) : ~(body[i] = "_" /\ body[i + 1] = "_")

\* int(s) for a str: surrounding blanks, an optional sign, then decimal digits
\* with single underscores between them; anything else raises ValueError
\* (ok = FALSE)
PyIntOfStr(s) ==
    LET t == StripRight(StripLeft(s))
        signed == t # <<>> /\ Head(t) \in {"-", "+"}
        body == IF signed THEN Tail(t) ELSE t
        good == IsIntBody(body)
        mag == IF good THEN DigitsVal(DropUnderscores(body), 0) ELSE 0
    IN [ok |-> good, v |-> IF signed /\ Head(t) = "-" THEN 0 - mag ELSE mag]

\* seq[a:b] with Python's treatment of negative and out-of-range indices
PySlice(s, a, b) ==
    LET n == Len(s)
        lo == IF a < 0 THEN Max(a + n, 0) ELSE Min(a, n)
        hi == IF b < 0 THEN Max(b + n, 0) ELSE Min(b, n)
    IN IF lo >= hi THEN <<>> ELSE SubSeq(s, lo + 1, hi)

(***************************************************************************)
(* JSON-RPC messages as json.loads delivers them                           *)
(***************************************************************************)
IdInt(n) == [t |-> "int", v |-> n]

IdNull == [t |-> "null", v |-> 0]

\* a "cursor" member of params: absent, a str, an int, a list, or the float
\* infinity that json.loads makes of 1e999
CurAbsent == [t |-> "absent", s |-> <<>>, n |-> 0]

CurStr(s) == [t |-> "str", s |-> s, n |-> 0]

CurInt(n) == [t |-> "int", s |-> <<>>, n |-> n]

CurList == [t |-> "list", s |-> <<>>, n |-> 1]

CurInf == [t |-> "inf", s |-> <<>>, n |-> 0]

\* an "arguments" member of params: absent, a dict giving a and b, a dict
\* giving only a, or a value that is not a dict
ArgsAbsent == [ak |-> "absent", a |-> 0, b |-> 0]

ArgsFull(a, b) == [ak |-> "full", a |-> a, b |-> b]

ArgsPartial(a) == [ak |-> "partial", a |-> a, b |-> 0]

ArgsNotDict == [ak |-> "notdict", a |-> 0, b |-> 0]

\* params: pk says whether the member is absent, a dict, a list or null; the
\* other fields are the members a dict carries
ParamsOf(pk, hasName, name, arguments, cursor, client) ==
    [pk |-> pk, hasName |-> hasName, name |-> name, arguments |-> arguments,
     cursor |-> cursor, client |-> client]

NoClient == "{}"

EmptyParams(pk) == ParamsOf(pk, FALSE, "", ArgsAbsent, CurAbsent, NoClient)

CallParams(name, arguments) == ParamsOf("object", TRUE, name, arguments, CurAbsent, NoClient)

ListParams(cursor) == ParamsOf("object", FALSE, "", ArgsAbsent, cursor, NoClient)

InitParams(client) == ParamsOf("object", FALSE, "", ArgsAbsent, CurAbsent, client)

\* one JSON object: hasId says whether it has an "id" member
Msg(hasId, id, method, params) ==
    [jk |-> "object", hasId |-> hasId, id |-> id, method |-> method, params |-> params]

Request(id, method, params) == Msg(TRUE, id, method, params)

Notification(method, params) == Msg(FALSE, IdNull, method, params)

RequestMethods == {"initialize", "ping", "tools/list", "tools/call"}

\* a JSON value that is not an object, where a message is expected: jk is
\* "int", "null", "str", or "float" for the nan json.loads makes of NaN
JsonScalar(jk) ==
    [jk |-> jk, hasId |-> FALSE, id |-> IdNull, method |-> "", params |-> EmptyParams("absent")]

\* the string given to handle_message.  tk: "malformed" text, which json.loads
\* rejects; "nonstandard" text, which is not JSON but which json.loads reads
\* (it holds NaN or Infinity); or "json".  top: the value read is one value
\* ("single") or a list ("array") of the values in items.
Input(tk, top, items) == [tk |-> tk, top |-> top, items |-> items]

MalformedText == Input("malformed", "single", <<>>)

SingleText(m) == Input("json", "single", <<m>>)

BatchText(ms) == Input("json", "array", ms)

\* the texts NaN and [..., NaN]
NaNText == Input("nonstandard", "single", <<JsonScalar("float")>>)

NaNBatchText(ms) == Input("nonstandard", "array", ms \o <<JsonScalar("float")>>)

(***************************************************************************)
(* JSON-RPC responses                                                      *)
(***************************************************************************)
TextBlock(text) == [type |-> "text", text |-> text]

\* the result member of a response: rk tells which handler built it
ResultOf(rk, content, isError, tools, hasNext, nextCursor) ==
    [rk |-> rk, content |-> content, isError |-> isError, tools |-> tools,
     hasNext |-> hasNext, nextCursor |-> nextCursor]

NoResult == ResultOf("none", <<>>, FALSE, <<>>, FALSE, <<>>)

EmptyResult == ResultOf("empty", <<>>, FALSE, <<>>, FALSE, <<>>)

InitResult == ResultOf("initialize", <<>>, FALSE, <<>>, FALSE, <<>>)

Envelope(content, isError) == ResultOf("envelope", content, isError, <<>>, FALSE, <<>>)

ToolsResult(tools, hasNext, nextCursor) ==
    ResultOf("tools", <<>>, FALSE, tools, hasNext, nextCursor)

\* the keys of the dict handle_initialize builds as its result
InitResultMembers == {"serverInfo", "capabilities"}

create_response(result, id) ==
    [id |-> id, hasResult |-> TRUE, hasError |-> FALSE, code |-> 0,
     message |-> "", hasData |-> FALSE, result |-> result]

create_error_response(code, message, id) ==
    [id |-> id, hasResult |-> FALSE, hasError |-> TRUE, code |-> code,
     message |-> message, hasData |-> FALSE, result |-> NoResult]

\* the response handle_message builds in its "except Exception": the error
\* has a data member, str(e)
internal_error_response ==
    [create_error_response(INTERNAL_ERROR, "Internal error", IdNull) EXCEPT !.hasData = TRUE]

\* what handle_message returns: None, one serialized response, or a
\* serialized array of responses
RetNull == [kind |-> "null", items |-> <<>>]

RetSingle(r) == [kind |-> "single", items |-> <<r>>]

RetArray(rs) == [kind |-> "array", items |-> rs]

\* no value is returned: an exception leaves handle_message
RetRaised == [kind |-> "raised", items |-> <<>>]

(***************************************************************************)
(* The skill registry                                                      *)
(***************************************************************************)
\* a registered skill: whether it has metadata, whether its signature has
\* required parameters (a, b), what calling it does ("returns" a number,
\* "returns_dict": a dict with a "content" key, "raises" an Exception, "exits":
\* raises SystemExit), and whether the registry hands it out inside a dict of
\* same-named skills
Skill(name, hasMeta, needsArgs, behav, dup) ==
    [name |-> name, hasMeta |-> hasMeta, needsArgs |-> needsArgs, behav |-> behav, dup |-> dup]

SkAdd == Skill("add", TRUE, TRUE, "returns", FALSE)

SkBoom == Skill("boom", TRUE, FALSE, "raises", FALSE)

SkRaw == Skill("raw", FALSE, FALSE, "returns_dict", TRUE)

SkExit == Skill("exit", TRUE, FALSE, "exits", FALSE)

SkEcho == Skill("echo", TRUE, FALSE, "returns", FALSE)

SkConcat == Skill("concat", TRUE, TRUE, "returns", FALSE)

get_skill_names(sk) == [i \in 1..Len(sk) |-> sk[i].name]

HasSkill(sk, name) == \E i \in 1..Len(sk) : sk[i].name = name

SkillAt(sk, name) == sk[CHOOSE i \in 1..Len(sk) : sk[i].name = name]

\* None, a callable, or a dict of callables
get_skill_by_name(sk, name) ==
    IF ~HasSkill(sk, name) THEN [kind |-> "none", fn |-> SkAdd]
    ELSE [kind |-> IF SkillAt(sk, name).dup THEN "dict" ELSE "callable",
          fn |-> SkillAt(sk, name)]

get_skill_metadata_by_name(sk, name) ==
    HasSkill(sk, name) /\ SkillAt(sk, name).hasMeta

\* values a skill call can produce
\* an int, or a dict that already has a "content" key
IntValue(n) == [vk |-> "int", n |-> n, text |-> <<>>, env |-> NoResult]

DictValue(env) == [vk |-> "dict_content", n |-> 0, text |-> <<>>, env |-> env]

\* the dict {"content": "hello"}: a "content" key, its value not a list of
\* text blocks, and no "isError" key
RawDict == ResultOf("dict", <<>>, FALSE, <<>>, FALSE, <<>>)

\* skill(**arguments): raised says whether the call raised an Exception, text
\* the message, exits whether it raised SystemExit
CallSkill(fn, arguments) ==
    IF arguments.ak = "notdict"
    THEN [raised |-> TRUE, exits |-> FALSE,
          text |-> <<"argument after ** must be a mapping">>, value |-> IntValue(0)]
    ELSE IF fn.needsArgs /\ arguments.ak # "full"
    THEN [raised |-> TRUE, exits |-> FALSE,
          text |-> <<"missing required positional argument">>, value |-> IntValue(0)]
    ELSE IF ~fn.needsArgs /\ arguments.ak # "absent"
    THEN [raised |-> TRUE, exits |-> FALSE,
          text |-> <<"got an unexpected keyword argument">>, value |-> IntValue(0)]
    ELSE IF fn.behav = "raises"
    THEN [raised |-> TRUE, exits |-> FALSE, text |-> <<"boom">>, value |-> IntValue(0)]
    ELSE IF fn.behav = "exits"
    THEN [raised |-> FALSE, exits |-> TRUE, text |-> <<>>, value |-> IntValue(0)]
    ELSE IF fn.behav = "returns_dict"
    THEN [raised |-> FALSE, exits |-> FALSE, text |-> <<>>, value |-> DictValue(RawDict)]
    ELSE [raised |-> FALSE, exits |-> FALSE, text |-> <<>>,
          value |-> IntValue(IF fn.needsArgs THEN arguments.a + arguments.b ELSE 0)]

(***************************************************************************)
(* Converters                                                              *)
(***************************************************************************)
\* the descriptor of a tool; only the name matters to the dispatch
skill_metadata_to_mcp_tool(name) == [name |-> name]

\* str(result)
PyStrOfValue(v) == IF v.vk = "int" THEN PyStr(v.n) ELSE v.text

\* mutant: every value that is wrapped is flagged as an error
mcp_tool_result_to_response_flagged(result) ==
    IF result.vk = "dict_content" THEN result.env
    ELSE Envelope(<<TextBlock(PyStrOfValue(result))>>, TRUE)

mcp_tool_result_to_response(result) ==
    IF result.vk = "dict_content" THEN result.env
    ELSE Envelope(<<TextBlock(PyStrOfValue(result))>>, result.vk = "exc")

(***************************************************************************)
(* The converter of type tokens.  A token is the sequence of its lexemes:  *)
(* names, "[", "]", "," and " ".                                           *)
(***************************************************************************)
\* a JSON Schema: {} (k "any"), {"type": type} with "items" when items holds
\* a schema, or {"anyOf": alts}
Schema(k, type, items, alts) == [k |-> k, type |-> type, items |-> items, alts |-> alts]

AnySchema == Schema("any", "", <<>>, <<>>)

TypeSchema(type) == Schema("type", type, <<>>, <<>>)

\* the table basic_types
basic_types ==
    [n \in {"str", "int", "float", "bool", "None", "any", "Any", "dict", "Dict", "list",
            "List", "tuple", "Tuple"} |->
        CASE n = "str" -> TypeSchema("string")
          [] n = "int" -> TypeSchema("integer")
          [] n = "float" -> TypeSchema("number")
          [] n = "bool" -> TypeSchema("boolean")
          [] n = "None" -> TypeSchema("null")
          [] n \in {"any", "Any"} -> AnySchema
          [] n \in {"dict", "Dict"} -> TypeSchema("object")
          [] OTHER -> TypeSchema("array")]

\* python_type.startswith(name + "[")
StartsWith(python_type, names) ==
    Len(python_type) >= 2 /\ python_type[1] \in names /\ python_type[2] = "["

\* python_type[len(name) + 1:-1]: what stands after "name[", less the last
\* character, which is the closing bracket of the token
Inside(python_type) == SubSeq(python_type, 3, Len(python_type) - 1)

\* current.strip()
Strip(s) == StripRight(StripLeft(s))

\* mutant: every comma splits, whatever the bracket level
RECURSIVE SplitTypes_every_comma(_, _, _, _)
SplitTypes_every_comma(types_str, types, current, bracket_level) ==
    IF types_str = <<>>
    THEN IF current # <<>> THEN Append(types, Strip(current)) ELSE types
    ELSE IF Head(types_str) = ","
    THEN SplitTypes_every_comma(Tail(types_str), Append(types, Strip(current)), <<>>,
                                bracket_level)
    ELSE SplitTypes_every_comma(Tail(types_str), types, Append(current, Head(types_str)),
                                bracket_level)

\* the loop over the characters of types_str: a comma at bracket level 0
\* ends the current member; after the loop what is left in current is a
\* member unless it is the empty string
RECURSIVE SplitTypes(_, _, _, _)
SplitTypes(types_str, types, current, bracket_level) ==
    IF types_str = <<>>
    THEN IF current # <<>> THEN Append(types, Strip(current)) ELSE types
    ELSE IF Head(types_str) = "," /\ bracket_level = 0
    THEN SplitTypes(Tail(types_str), Append(types, Strip(current)), <<>>, bracket_level)
    ELSE SplitTypes(Tail(types_str), types, Append(current, Head(types_str)),
                    IF Head(types_str) = "[" THEN bracket_level + 1
                    ELSE IF Head(types_str) = "]" THEN bracket_level - 1
                    ELSE bracket_level)

RECURSIVE _map_python_type_to_json_schema(_)
_map_python_type_to_json_schema(python_type) ==
    IF Len(python_type) = 1 /\ python_type[1] \in DOMAIN basic_types
    THEN basic_types[python_type[1]]
    ELSE IF StartsWith(python_type, {"List", "list"})
    THEN Schema("type", "array",
                <<_map_python_type_to_json_schema(Inside(python_type))>>, <<>>)
    ELSE IF StartsWith(python_type, {"Dict", "dict"})
    THEN TypeSchema("object")
    ELSE IF StartsWith(python_type, {"Union", "Optional"})
    THEN Schema("anyOf", "", <<>>,
                [i \in 1..Len(SplitTypes(Inside(python_type), <<>>, <<>>, 0)) |->
                    _map_python_type_to_json_schema(
                        SplitTypes(Inside(python_type), <<>>, <<>>, 0)[i])])
    ELSE AnySchema

(***************************************************************************)
(* InstantMCPServer.get_tools and execute_tool                             *)
(***************************************************************************)
NoCache == [set |-> FALSE, tools |-> <<>>]

RECURSIVE ToolsOf(_, _)
ToolsOf(sk, names) ==
    IF names = <<>> THEN <<>>
    ELSE (IF get_skill_metadata_by_name(sk, Head(names))
          THEN <<skill_metadata_to_mcp_tool(Head(names))>> ELSE <<>>)
         \o ToolsOf(sk, Tail(names))

\* mutant: a cache that holds the empty list is regenerated too
get_tools_when_falsy(sk, cache, refresh) ==
    IF ~cache.set \/ cache.tools = <<>> \/ refresh
    THEN [tools |-> ToolsOf(sk, get_skill_names(sk)),
          cache |-> [set |-> TRUE, tools |-> ToolsOf(sk, get_skill_names(sk))]]
    ELSE [tools |-> cache.tools, cache |-> cache]

\* returns the list and the cache it leaves behind
get_tools(sk, cache, refresh) ==
    IF ~cache.set \/ refresh
    THEN [tools |-> ToolsOf(sk, get_skill_names(sk)),
          cache |-> [set |-> TRUE, tools |-> ToolsOf(sk, get_skill_names(sk))]]
    ELSE [tools |-> cache.tools, cache |-> cache]

\* the call of the skill raises SystemExit, which "except Exception" does not
\* catch: execute_tool returns nothing
ToolExits(sk, tool_name, arguments) ==
    /\ get_skill_by_name(sk, tool_name).kind # "none"
    /\ CallSkill(get_skill_by_name(sk, tool_name).fn, arguments).exits

execute_tool(sk, tool_name, arguments) ==
    LET skill == get_skill_by_name(sk, tool_name)
    IN IF skill.kind = "none"
       THEN Envelope(<<TextBlock(<<"Error: Tool '", tool_name, "' not found">>)>>, TRUE)
       ELSE LET r == CallSkill(skill.fn, arguments)
            IN IF r.raised
               THEN Envelope(<<TextBlock(<<"Error al ejecutar la herramienta: ">> \o r.text)>>, TRUE)
               ELSE mcp_tool_result_to_response(r.value)

(***************************************************************************)
(* Handlers.  A handler returns what it did to the server and either the   *)
(* response it built or the fact that an exception left it (raised).       *)
(***************************************************************************)
Done(resp, sess, cache, calls) ==
    [raised |-> FALSE, exits |-> FALSE, resp |-> resp, sessions |-> sess,
     tools_cache |-> cache, calls |-> calls]

\* an Exception leaves the handler
Raised(sess, cache, calls) ==
    [raised |-> TRUE, exits |-> FALSE, resp |-> create_error_response(0, "", IdNull),
     sessions |-> sess, tools_cache |-> cache, calls |-> calls]

\* SystemExit leaves the handler
Exited(sess, cache, calls) ==
    [raised |-> TRUE, exits |-> TRUE, resp |-> create_error_response(0, "", IdNull),
     sessions |-> sess, tools_cache |-> cache, calls |-> calls]

\* request.get("params", {}) is a dict: params.get(...) works
ParamsIsDict(params) == params.pk \in {"absent", "object"}

\* bool(cursor)
CursorTruthy(cursor) ==
    CASE cursor.t = "absent" -> FALSE
      [] cursor.t = "str" -> cursor.s # <<>>
      [] cursor.t = "int" -> cursor.n # 0
      [] OTHER -> TRUE

\* int(cursor) with ValueError and TypeError caught
StartIndex(cursor) ==
    IF ~CursorTruthy(cursor) THEN 0
    ELSE CASE cursor.t = "str" -> (IF PyIntOfStr(cursor.s).ok THEN PyIntOfStr(cursor.s).v ELSE 0)
           [] cursor.t = "int" -> cursor.n
           [] OTHER -> 0

\* int(cursor) raises OverflowError, which the handler's inner except clause
\* (ValueError, TypeError) does not catch
CursorOverflows(cursor) == cursor.t = "inf"

PageSize(cfg) == IF cfg.has_page_size THEN cfg.page_size ELSE DefaultPageSize

\* mutant: the next cursor is one past the end of the page
handle_list_tools_skip(sk, cfg, sess, cache, params, request_id) ==
    LET got == get_tools(sk, cache, FALSE)
        tools == got.tools
    IN IF ~ParamsIsDict(params) \/ CursorOverflows(params.cursor)
       THEN Done(create_error_response(INTERNAL_ERROR, "Error interno", request_id),
                 sess, got.cache, <<>>)
       ELSE LET start_index == StartIndex(params.cursor)
                end_index == Min(start_index + PageSize(cfg), Len(tools))
                has_next == end_index + 1 < Len(tools)
                page_tools == PySlice(tools, start_index, end_index)
            IN Done(create_response(
                        ToolsResult(page_tools, has_next,
                                    IF has_next THEN PyStr(end_index + 1) ELSE <<>>),
                        request_id),
                    sess, got.cache, <<>>)

\* mutant: nextCursor is given on the last page too
handle_list_tools_always_next(sk, cfg, sess, cache, params, request_id) ==
    LET got == get_tools(sk, cache, FALSE)
        tools == got.tools
    IN IF ~ParamsIsDict(params) \/ CursorOverflows(params.cursor)
       THEN Done(create_error_response(INTERNAL_ERROR, "Error interno", request_id),
                 sess, got.cache, <<>>)
       ELSE LET start_index == StartIndex(params.cursor)
                end_index == Min(start_index + PageSize(cfg), Len(tools))
                page_tools == PySlice(tools, start_index, end_index)
            IN Done(create_response(ToolsResult(page_tools, TRUE, PyStr(end_index)), request_id),
                    sess, got.cache, <<>>)

handle_list_tools(sk, cfg, sess, cache, params, request_id) ==
    LET got == get_tools(sk, cache, FALSE)
        tools == got.tools
    IN IF ~ParamsIsDict(params) \/ CursorOverflows(params.cursor)
       THEN Done(create_error_response(INTERNAL_ERROR, "Error interno", request_id),
                 sess, got.cache, <<>>)
       ELSE LET start_index == StartIndex(params.cursor)
                end_index == Min(start_index + PageSize(cfg), Len(tools))
                has_next == end_index < Len(tools)
                page_tools == PySlice(tools, start_index, end_index)
            IN Done(create_response(
                        ToolsResult(page_tools, has_next,
                                    IF has_next THEN PyStr(end_index) ELSE <<>>),
                        request_id),
                    sess, got.cache, <<>>)

\* bool(tool_name) for params.get("name")
NameTruthy(params) == params.hasName /\ params.name # ""

\* mutant: a failed tool is reported as a JSON-RPC error
handle_call_tool_error_on_failure(sk, sess, cache, params, request_id) ==
    IF ~ParamsIsDict(params)
    THEN Raised(sess, cache, <<>>)
    ELSE IF ~NameTruthy(params)
    THEN Done(create_error_response(INVALID_PARAMS, "Falta el parametro 'name'", request_id),
              sess, cache, <<>>)
    ELSE IF params.name \notin Range(get_skill_names(sk))
    THEN Done(create_error_response(METHOD_NOT_FOUND, "Tool no encontrada", request_id),
              sess, cache, <<>>)
    ELSE LET result == execute_tool(sk, params.name, params.arguments)
         IN IF result.isError
            THEN Done(create_error_response(INTERNAL_ERROR, "Error interno", request_id),
                      sess, cache, <<params.name>>)
            ELSE Done(create_response(result, request_id), sess, cache, <<params.name>>)

\* mutant: the name is not looked up among the registered names
handle_call_tool_no_lookup(sk, sess, cache, params, request_id) ==
    IF ~ParamsIsDict(params)
    THEN Raised(sess, cache, <<>>)
    ELSE IF ~NameTruthy(params)
    THEN Done(create_error_response(INVALID_PARAMS, "Falta el parametro 'name'", request_id),
              sess, cache, <<>>)
    ELSE Done(create_response(execute_tool(sk, params.name, params.arguments), request_id),
              sess, cache, <<params.name>>)

\* mutant: the tool is executed before the name is looked up
handle_call_tool_exec_first(sk, sess, cache, params, request_id) ==
    IF ~ParamsIsDict(params)
    THEN Raised(sess, cache, <<>>)
    ELSE IF ~NameTruthy(params)
    THEN Done(create_error_response(INVALID_PARAMS, "Falta el parametro 'name'", request_id),
              sess, cache, <<>>)
    ELSE LET result == execute_tool(sk, params.name, params.arguments)
         IN IF params.name \notin Range(get_skill_names(sk))
            THEN Done(create_error_response(METHOD_NOT_FOUND, "Tool no encontrada", request_id),
                      sess, cache, <<params.name>>)
            ELSE Done(create_response(result, request_id), sess, cache, <<params.name>>)

handle_call_tool(sk, sess, cache, params, request_id) ==
    IF ~ParamsIsDict(params)
    \* params.get raises inside the try, and again inside the except clause
    \* that formats the log line: the second exception leaves the handler
    THEN Raised(sess, cache, <<>>)
    ELSE IF ~NameTruthy(params)
    THEN Done(create_error_response(INVALID_PARAMS, "Falta el parametro 'name'", request_id),
              sess, cache, <<>>)
    ELSE IF params.name \notin Range(get_skill_names(sk))
    THEN Done(create_error_response(METHOD_NOT_FOUND, "Tool no encontrada", request_id),
              sess, cache, <<>>)
    ELSE IF ToolExits(sk, params.name, params.arguments)
    THEN Exited(sess, cache, <<params.name>>)
    ELSE LET result == execute_tool(sk, params.name, params.arguments)
             mcp_result == mcp_tool_result_to_response(DictValue(result))
         IN Done(create_response(mcp_result, request_id), sess, cache, <<params.name>>)

SessionRecord(n, client, t) ==
    [id |-> n, client |-> client, created_at |-> t, expires_at |-> t + SessionTimeout]

\* sessions[key] = value
Put(sess, n, rec) ==
    [k \in DOMAIN sess \cup {n} |-> IF k = n THEN rec ELSE sess[k]]

\* sessions.pop(key, None)
Pop(sess, n) == [k \in DOMAIN sess \ {n} |-> sess[k]]

handle_initialize(sess, cache, params, request_id, t) ==
    IF ~ParamsIsDict(params)
    THEN Done(create_error_response(INTERNAL_ERROR, "Error interno", request_id),
              sess, cache, <<>>)
    ELSE LET n == Cardinality(DOMAIN sess) + 1
         IN Done(create_response(InitResult, request_id),
                 Put(sess, n, SessionRecord(n, params.client, t)), cache, <<>>)

\* mutant: ping is answered only to a server that holds a session
handle_ping_requires_session(sess, cache, request_id) ==
    IF DOMAIN sess = {}
    THEN Done(create_error_response(INTERNAL_ERROR, "Error interno", request_id), sess, cache, <<>>)
    ELSE Done(create_response(EmptyResult, request_id), sess, cache, <<>>)

\* mutant: ping empties the session table
handle_ping_clears_sessions(sess, cache, request_id) ==
    Done(create_response(EmptyResult, request_id), [k \in {} |-> sess[k]], cache, <<>>)

handle_ping(sess, cache, request_id) ==
    Done(create_response(EmptyResult, request_id), sess, cache, <<>>)

\* mutant: the method is matched without regard to case
_handle_request_any_case(sk, cfg, sess, cache, request, t) ==
    LET method == IF request.method = "Ping" THEN "ping" ELSE request.method
    IN CASE method = "initialize" ->
                handle_initialize(sess, cache, request.params, request.id, t)
         [] method = "ping" ->
                handle_ping(sess, cache, request.id)
         [] method = "tools/list" ->
                handle_list_tools(sk, cfg, sess, cache, request.params, request.id)
         [] method = "tools/call" ->
                handle_call_tool(sk, sess, cache, request.params, request.id)
         [] OTHER ->
                Done(create_error_response(METHOD_NOT_FOUND, "Method not found", request.id),
                     sess, cache, <<>>)

_handle_request(sk, cfg, sess, cache, request, t) ==
    CASE request.method = "initialize" ->
             handle_initialize(sess, cache, request.params, request.id, t)
      [] request.method = "ping" ->
             handle_ping(sess, cache, request.id)
      [] request.method = "tools/list" ->
             handle_list_tools(sk, cfg, sess, cache, request.params, request.id)
      [] request.method = "tools/call" ->
             handle_call_tool(sk, sess, cache, request.params, request.id)
      [] OTHER ->
             Done(create_error_response(METHOD_NOT_FOUND, "Method not found", request.id),
                  sess, cache, <<>>)

\* notifications/initialized is logged, notifications/cancelled is ignored,
\* anything else is logged as unhandled: the server is left as it was
_handle_notification(sess, cache, notification) ==
    Done(create_error_response(0, "", IdNull), sess, cache, <<>>)

\* mutant: a message is taken for a request when its method is a request method
handle_message_by_method(sk, cfg, sess, cache, message, t) ==
    IF message.hasId \/ message.method \in RequestMethods
    THEN LET h == _handle_request(sk, cfg, sess, cache, message, t)
         IN [ret |-> IF h.raised
                     THEN RetSingle(internal_error_response)
                     ELSE RetSingle(h.resp),
             sessions |-> h.sessions, tools_cache |-> h.tools_cache, calls |-> h.calls]
    ELSE [ret |-> RetNull, sessions |-> sess, tools_cache |-> cache, calls |-> <<>>]

\* the value handle_message returns and the server it leaves behind
handle_message(sk, cfg, sess, cache, message, t) ==
    IF message.hasId
    THEN LET h == _handle_request(sk, cfg, sess, cache, message, t)
         IN [ret |-> IF h.exits THEN RetRaised
                     ELSE IF h.raised
                     THEN RetSingle(internal_error_response)
                     ELSE RetSingle(h.resp),
             sessions |-> h.sessions, tools_cache |-> h.tools_cache, calls |-> h.calls]
    ELSE LET h == _handle_notification(sess, cache, message)
         IN [ret |-> RetNull, sessions |-> h.sessions, tools_cache |-> h.tools_cache,
             calls |-> h.calls]

\* the state of the loop over a batch: the responses collected so far, what
\* the elements handled so far did to the server, and whether an Exception
\* (raised) or SystemExit (exits) has left the loop
BatchState(raised, exits, responses, sess, cache, calls) ==
    [raised |-> raised, exits |-> exits, responses |-> responses, sessions |-> sess,
     tools_cache |-> cache, calls |-> calls]

\* one pass of the loop: h is what the handler of the element did; the
\* response of a request is appended
BatchStep(st, isRequest, h) ==
    BatchState(h.raised, h.exits,
               IF isRequest /\ ~h.raised THEN Append(st.responses, h.resp) ELSE st.responses,
               h.sessions, h.tools_cache, st.calls \o h.calls)

\* the loop of handle_message over the elements of a batch, from state st
RECURSIVE HandleBatch(_, _, _, _, _)
HandleBatch(sk, cfg, st, items, t) ==
    IF items = <<>> \/ st.raised THEN st
    ELSE IF Head(items).jk # "object"
    \* "id" in msg, or msg.get, raises on a value that is not a dict
    THEN [st EXCEPT !.raised = TRUE]
    ELSE HandleBatch(sk, cfg,
                     BatchStep(st, Head(items).hasId,
                               IF Head(items).hasId
                               THEN _handle_request(sk, cfg, st.sessions, st.tools_cache,
                                                    Head(items), t)
                               ELSE _handle_notification(st.sessions, st.tools_cache,
                                                         Head(items))),
                     Tail(items), t)

\* what handle_message returns after the loop over a batch that ended in b
BatchResult(b) ==
    [ret |-> IF b.exits THEN RetRaised
             ELSE IF b.raised
             THEN RetSingle(internal_error_response)
             ELSE IF b.responses # <<>> THEN RetArray(b.responses)
             ELSE RetNull,
     sessions |-> b.sessions, tools_cache |-> b.tools_cache, calls |-> b.calls]

\* handle_message on the string it is given: the value it returns, or the
\* fact that SystemExit left it, and the server it leaves behind
handle_message_str(sk, cfg, sess, cache, input, t) ==
    IF input.tk = "malformed"
    THEN [ret |-> RetSingle(create_error_response(PARSE_ERROR, "Parse error", IdNull)),
          sessions |-> sess, tools_cache |-> cache, calls |-> <<>>]
    ELSE IF input.top = "array"
    THEN BatchResult(HandleBatch(sk, cfg, BatchState(FALSE, FALSE, <<>>, sess, cache, <<>>),
                                 input.items, t))
    ELSE IF input.items[1].jk # "object"
    THEN [ret |-> RetSingle(internal_error_response),
          sessions |-> sess, tools_cache |-> cache, calls |-> <<>>]
    ELSE handle_message(sk, cfg, sess, cache, input.items[1], t)

(***************************************************************************)
(* Configurations, registries and inputs                                   *)
(***************************************************************************)
\* https_broken: http.use_https is set without cert_file or key_file;
\* auth_enabled: http.auth.enabled, false in the default configuration
Config(http_enabled, stdio_enabled, https_broken, has_page_size, page_size) ==
    [http_enabled |-> http_enabled, stdio_enabled |-> stdio_enabled,
     https_broken |-> https_broken, has_page_size |-> has_page_size, page_size |-> page_size,
     auth_enabled |-> FALSE]

\* get_default_config("development"), get_default_config("testing"), and a
\* configuration asking for HTTPS without a certificate
ConfDev == Config(TRUE, FALSE, FALSE, FALSE, 0)

ConfTesting == Config(TRUE, TRUE, FALSE, FALSE, 0)

ConfBrokenHttps == Config(TRUE, FALSE, TRUE, FALSE, 0)

\* the configuration of mcp_api_key_auth_example.py: http.auth.enabled is
\* true and http.auth.api_keys holds keys
ConfAuth == [ConfDev EXCEPT !.auth_enabled = TRUE]

\* what a request to the HTTP transport presents as API key: none, one that
\* is not in http.auth.api_keys, or one that is
KeysPresented(cfg) == IF cfg.auth_enabled THEN {"absent", "invalid", "valid"} ELSE {"absent"}

\* a development configuration with pagination.page_size set
ConfPaged(page_size) == Config(TRUE, FALSE, FALSE, TRUE, page_size)

BaseRegistry == <<SkAdd, SkBoom, SkRaw>>

Ids == {IdInt(1), IdNull}

ToolNames == {"add", "boom", "raw", "ghost", ""}

Arguments == {ArgsAbsent, ArgsFull(40, 2), ArgsFull(-7, 2), ArgsPartial(40), ArgsNotDict}

Cursors ==
    {CurAbsent, CurStr(<<>>), CurStr(<<"1">>), CurStr(<<" ", "2">>), CurStr(<<"x">>),
     CurStr(<<"-", "1">>), CurStr(<<"1", "_", "0">>), CurInt(0), CurInt(1), CurInt(-1),
     CurList, CurInf}

Clients == {"c1"}

GenericParams == {EmptyParams(pk) : pk \in {"absent", "object", "array", "null"}}

ParamsFor(method) ==
    CASE method = "tools/call" ->
             GenericParams \cup {CallParams(n, a) : n \in ToolNames, a \in Arguments}
      [] method = "tools/list" ->
             GenericParams \cup {ListParams(c) : c \in Cursors}
      [] method = "initialize" ->
             GenericParams \cup {InitParams(c) : c \in Clients}
      [] OTHER -> GenericParams

Methods ==
    RequestMethods \cup {"notifications/initialized", "notifications/cancelled", "other", "Ping", ""}

Messages ==
    UNION {{Request(id, m, p) : id \in Ids, p \in ParamsFor(m)} : m \in Methods}
    \cup UNION {{Notification(m, p) : p \in ParamsFor(m)} : m \in Methods}

\* the messages that matter to the session table
LifeMessages ==
    {Request(IdInt(1), "initialize", InitParams("c1")),
     Request(IdInt(1), "initialize", EmptyParams("absent")),
     Request(IdInt(1), "initialize", EmptyParams("array")),
     Request(IdInt(1), "ping", EmptyParams("absent")),
     Notification("initialize", InitParams("c1")),
     Notification("notifications/initialized", EmptyParams("absent"))}

(***************************************************************************)
(* State                                                                   *)
(***************************************************************************)
EmptySessions == [k \in {} |-> 0]

NoMsg == Notification("", EmptyParams("absent"))

\* the record kept about the last operation
Out(op, request, ret, calls, status, raised) ==
    [op |-> op, request |-> request, ret |-> ret, calls |-> calls, status |-> status,
     raised |-> raised, key |-> "absent"]

OutOp(op) == Out(op, NoMsg, RetNull, <<>>, 0, FALSE)

\* a cleanup thread: where it is in cleanup_task ("sleep", "iter", "pop", or
\* ended: "exited" by the loop test, "crashed" by an exception) and its local
\* variables
Cleaner(pc, current_time, it_size, seen, expired, wake_at) ==
    [pc |-> pc, current_time |-> current_time, it_size |-> it_size, seen |-> seen,
     expired |-> expired, wake_at |-> wake_at]

\* in time.sleep until wake_at, then at the test of "while self.running";
\* a new thread is there at once
SleepingCleaner(wake_at) == Cleaner("sleep", 0, 0, {}, {}, wake_at)

Transport(kind) == [kind |-> kind, running |-> TRUE]

\* a transport thread outside any handler
IdleThread == [pc |-> "idle", n |-> 0, rec |-> SessionRecord(0, NoClient, 0), sid |-> 0]

Threads == {"http", "stdio"}

\* the paginating client: the cursor it will send, the tools it has received
\* and the parity of the number of pages it has asked for
\* the streams of the stdio transport: stdin holds the lines that arrived and
\* were not read, buffer the lines read and not processed, n counts the lines
\* that arrived, handled lists the lines given to _process_line and stdout the
\* responses written, each with the number of its line
IdleIo == [stdin |-> <<>>, buffer |-> <<>>, n |-> 0, handled |-> <<>>, stdout |-> <<>>]

\* a stream of GET /mcp: where event_generator is ("start": not yet run,
\* "open": in its loop, "ended"), its queue, the messages put into the queue
\* so far, the frames it emitted and how often its wait timed out
Connection ==
    [pc |-> "start", queue |-> <<>>, enq |-> <<>>, emitted |-> <<>>, timeouts |-> 0]

\* FastAPITransport.sse_connections = {} and no stream of GET /mcp; registry
\* holds the keys of sse_connections, conns the streams by connection id
NoConnections == [registry |-> {}, conns |-> <<>>]

\* FastAPITransport.stop: None is put into the queue of every connection of
\* sse_connections
CloseAll(s) ==
    [s EXCEPT !.conns = [c \in DOMAIN s.conns |->
                            IF c \in s.registry
                            THEN [s.conns[c] EXCEPT !.queue = Append(@, "None")]
                            ELSE s.conns[c]]]

IdlePager == [phase |-> "idle", cursor |-> CurAbsent, acc |-> <<>>, odd |-> FALSE]

\* InstantMCPServer.__init__
InitWith(cfgs, regs) ==
    /\ running = FALSE
    /\ sessions = EmptySessions
    /\ tools_cache = NoCache
    /\ skills \in regs
    /\ config \in cfgs
    /\ transports = <<>>
    /\ cleaners = <<>>
    /\ now = 0
    /\ out = OutOp("init")
    /\ thr = [t \in Threads |-> IdleThread]
    /\ pg = IdlePager
    /\ io = IdleIo
    /\ sse = NoConnections

(***************************************************************************)
(* The operations, one atomic action each                                  *)
(***************************************************************************)
\* time passes
Tick ==
    /\ now < MaxTime
    /\ now' = now + 1
    /\ out' = OutOp("tick")
    /\ UNCHANGED <<running, sessions, tools_cache, skills, config, transports, cleaners, thr, pg, io, sse>>

\* InstantMCPServer.handle_message on one JSON object drawn from msgs
HandleMessageFrom(msgs) ==
    \E message \in msgs :
        LET r == handle_message(skills, config, sessions, tools_cache, message, now)
        IN /\ DOMAIN r.sessions \subseteq 1..MaxSessions
           /\ sessions' = r.sessions
           /\ tools_cache' = r.tools_cache
           /\ out' = Out("handle_message", message, r.ret, r.calls, 0, FALSE)
           /\ UNCHANGED <<running, skills, config, transports, cleaners, now, thr, pg, io, sse>>

HandleMessage == HandleMessageFrom(Messages)

HandleLifeMessage == HandleMessageFrom(LifeMessages)

HttpUp == \E i \in 1..Len(transports) : transports[i].kind = "http" /\ transports[i].running

\* the Mcp-Session-Id header of a DELETE /mcp: absent, or naming "session_<n>"
SessionHeaders ==
    {[present |-> FALSE, n |-> 0]} \cup {[present |-> TRUE, n |-> n] : n \in 1..(MaxSessions + 1)}

\* mutant: any id the header gives is answered by 204
SessionClose_any_id ==
    /\ HttpUp
    /\ \E h \in SessionHeaders :
          IF h.present
          THEN /\ sessions' = Pop(sessions, h.n)
               /\ out' = Out("session_close", h, RetNull, <<>>, 204, FALSE)
          ELSE /\ sessions' = sessions
               /\ out' = Out("session_close", h, RetNull, <<>>, 404, FALSE)
    /\ UNCHANGED <<running, tools_cache, skills, config, transports, cleaners, now, thr, pg, io, sse>>

\* FastAPITransport handle_session_close; out.request keeps the header
SessionClose ==
    /\ HttpUp
    /\ \E h \in SessionHeaders :
          IF h.present /\ h.n \in DOMAIN sessions
          THEN /\ sessions' = Pop(sessions, h.n)
               /\ out' = Out("session_close", h, RetNull, <<>>, 204, FALSE)
          ELSE /\ sessions' = sessions
               /\ out' = Out("session_close", h, RetNull, <<>>, 404, FALSE)
    /\ UNCHANGED <<running, tools_cache, skills, config, transports, cleaners, now, thr, pg, io, sse>>

\* mutant: the comparison of the sweep is inverted
Expired_inverted(sess, t) == {k \in DOMAIN sess : sess[k].expires_at > t}

\* the ids cleanup_task collects at time t
Expired(sess, t) == {k \in DOMAIN sess : sess[k].expires_at < t}

RECURSIVE PopAll(_, _)
PopAll(sess, ks) ==
    IF ks = {} THEN sess
    ELSE LET k == CHOOSE x \in ks : TRUE IN PopAll(Pop(sess, k), ks \ {k})

\* one pass of the loop of cleanup_task with nothing running in between: the
\* thread wakes up and tests running; it sweeps and goes back to sleep, or it
\* ends because running is false
CleanupTask ==
    \E c \in 1..Len(cleaners) :
        /\ cleaners[c].pc = "sleep"
        /\ now >= cleaners[c].wake_at
        /\ IF running
           THEN /\ sessions' = PopAll(sessions, Expired(sessions, now))
                /\ cleaners' = [cleaners EXCEPT ![c] = SleepingCleaner(now + CleanupInterval)]
                \* status: the number of sessions the sweep logs as cleaned
                /\ out' = Out("cleanup", NoMsg, RetNull, <<>>,
                              Cardinality(Expired(sessions, now)), FALSE)
           ELSE /\ sessions' = sessions
                /\ cleaners' = [cleaners EXCEPT ![c] = Cleaner("exited", 0, 0, {}, {}, 0)]
                /\ out' = OutOp("cleanup_exit")
        /\ UNCHANGED <<running, tools_cache, skills, config, transports, now, thr, pg, io, sse>>

\* the transports _setup_transports starts
EnabledTransports(cfg) ==
    (IF cfg.http_enabled THEN <<Transport("http")>> ELSE <<>>)
    \o (IF cfg.stdio_enabled THEN <<Transport("stdio")>> ELSE <<>>)

\* InstantMCPServer.start
Start ==
    /\ running \/ Len(cleaners) < MaxCleaners
    /\ IF running
       THEN /\ UNCHANGED <<running, transports, cleaners, sse>>
            /\ out' = OutOp("start")
       ELSE IF config.http_enabled /\ config.https_broken
       \* FastAPITransport.start raises ValueError: the list of transports
       \* was reset, nothing was appended and _setup_cleanup is not reached
       THEN /\ running' = TRUE
            /\ transports' = <<>>
            /\ cleaners' = cleaners
            /\ sse' = NoConnections
            /\ out' = Out("start", NoMsg, RetNull, <<>>, 0, TRUE)
       \* the transports are made anew: the FastAPITransport has an empty
       \* sse_connections, the streams of the one before went with it
       ELSE /\ running' = TRUE
            /\ transports' = EnabledTransports(config)
            /\ cleaners' = Append(cleaners, SleepingCleaner(now))
            /\ sse' = NoConnections
            /\ out' = OutOp("start")
    /\ UNCHANGED <<sessions, tools_cache, skills, config, now, thr, pg, io>>

\* mutant: stop leaves the session table as it is
Stop_keeps_sessions ==
    /\ IF ~running
       THEN UNCHANGED <<running, transports, sse>>
       ELSE /\ running' = FALSE
            /\ transports' = [i \in 1..Len(transports) |-> [transports[i] EXCEPT !.running = FALSE]]
            /\ sse' = CloseAll(sse)
    /\ out' = OutOp("stop")
    /\ UNCHANGED <<sessions, tools_cache, skills, config, cleaners, now, thr, pg, io>>

\* InstantMCPServer.stop
Stop ==
    /\ IF ~running
       THEN UNCHANGED <<running, transports, sessions, sse>>
       ELSE /\ running' = FALSE
            /\ transports' = [i \in 1..Len(transports) |-> [transports[i] EXCEPT !.running = FALSE]]
            /\ sessions' = EmptySessions
            /\ sse' = CloseAll(sse)
    /\ out' = OutOp("stop")
    /\ UNCHANGED <<tools_cache, skills, config, cleaners, now, thr, pg, io>>

(***************************************************************************)
(* Spec: message dispatch                                                  *)
(***************************************************************************)
Init == InitWith({ConfDev, ConfPaged(1)}, {BaseRegistry})

Next == HandleMessage

Spec == Init /\ [][Next]_vars

(***************************************************************************)
(* SpecLife: the server and its sessions                                   *)
(***************************************************************************)
InitLife == InitWith({ConfDev, ConfBrokenHttps}, {BaseRegistry})

NextLife ==
    \/ Tick
    \/ HandleLifeMessage
    \/ SessionClose
    \/ CleanupTask
    \/ Start
    \/ Stop

SpecLife == InitLife /\ [][NextLife]_vars

(***************************************************************************)
(* SpecFrame: every kind of message, together with the operations that     *)
(* remove sessions                                                         *)
(***************************************************************************)
InitFrame == InitWith({ConfDev}, {BaseRegistry})

\* each method as a request and as a notification, the calls of a tool that
\* returns, of one that raises and of one that is not there, and params that
\* are a list
FrameMessages ==
    {Request(IdInt(1), m, EmptyParams("absent")) : m \in Methods}
    \cup {Notification(m, EmptyParams("absent")) : m \in Methods}
    \cup {Request(IdInt(1), "initialize", InitParams("c1")),
          Notification("initialize", InitParams("c1")),
          Request(IdInt(1), "tools/call", CallParams("add", ArgsFull(40, 2))),
          Request(IdInt(1), "tools/call", CallParams("boom", ArgsAbsent)),
          Request(IdInt(1), "tools/call", CallParams("ghost", ArgsAbsent)),
          Notification("tools/call", CallParams("add", ArgsFull(40, 2))),
          Request(IdInt(1), "tools/call", EmptyParams("array")),
          Request(IdInt(1), "tools/list", EmptyParams("array")),
          Request(IdInt(1), "initialize", EmptyParams("array"))}

HandleFrameMessage == HandleMessageFrom(FrameMessages)

NextFrame ==
    \/ Tick
    \/ HandleFrameMessage
    \/ SessionClose
    \/ CleanupTask
    \/ Start
    \/ Stop

SpecFrame == InitFrame /\ [][NextFrame]_vars

(***************************************************************************)
(* SpecConc: the threads.  The HTTP transport runs its handlers on one     *)
(* thread (the event loop of uvicorn), the stdio transport on another      *)
(* (_stdio_loop), and every start() creates a cleanup thread.  None of     *)
(* them takes a lock: a step below is one access to the session table, and *)
(* the steps of different threads interleave.                              *)
(***************************************************************************)
InitConc == InitWith({ConfTesting}, {BaseRegistry})

TransportUp(t) ==
    \E i \in 1..Len(transports) : transports[i].kind = t /\ transports[i].running

\* handle_initialize up to the evaluation of the session record: the id is
\* computed from len(server.sessions) and the record is built
InitializeBegin(t) ==
    /\ thr[t].pc = "idle"
    /\ TransportUp(t)
    /\ Cardinality(DOMAIN sessions) < MaxSessions
    /\ LET n == Cardinality(DOMAIN sessions) + 1
       IN thr' = [thr EXCEPT ![t] = [pc |-> "store", n |-> n,
                                     rec |-> SessionRecord(n, "c1", now), sid |-> 0]]
    /\ UNCHANGED <<running, sessions, tools_cache, skills, config, transports, cleaners, now, out, pg, io, sse>>

\* handle_initialize: server.sessions[session_id] = record
InitializeStore(t) ==
    /\ thr[t].pc = "store"
    /\ sessions' = Put(sessions, thr[t].n, thr[t].rec)
    /\ thr' = [thr EXCEPT ![t] = IdleThread]
    /\ UNCHANGED <<running, tools_cache, skills, config, transports, cleaners, now, out, pg, io, sse>>

\* handle_session_close: the test "session_id in self.mcp_server.sessions"
CloseCheck ==
    /\ thr["http"].pc = "idle"
    /\ TransportUp("http")
    /\ \E h \in SessionHeaders :
          /\ h.present
          /\ h.n \in DOMAIN sessions
          /\ thr' = [thr EXCEPT !["http"] = [IdleThread EXCEPT !.pc = "pop", !.sid = h.n]]
    /\ UNCHANGED <<running, sessions, tools_cache, skills, config, transports, cleaners, now, out, pg, io, sse>>

\* handle_session_close: sessions.pop(session_id, None)
ClosePop ==
    /\ thr["http"].pc = "pop"
    /\ sessions' = Pop(sessions, thr["http"].sid)
    /\ thr' = [thr EXCEPT !["http"] = IdleThread]
    /\ UNCHANGED <<running, tools_cache, skills, config, transports, cleaners, now, out, pg, io, sse>>

\* cleanup_task: time.sleep returns and "while self.running" is tested; the
\* thread reads the clock and creates the iterator of sessions.items(), which
\* remembers the size of the dict, or it ends
CleanerWake(c) ==
    /\ cleaners[c].pc = "sleep"
    /\ now >= cleaners[c].wake_at
    /\ cleaners' = [cleaners EXCEPT ![c] =
                       IF running
                       THEN Cleaner("iter", now, Cardinality(DOMAIN sessions), {}, {}, 0)
                       ELSE Cleaner("exited", 0, 0, {}, {}, 0)]
    /\ UNCHANGED <<running, sessions, tools_cache, skills, config, transports, now, out, thr, pg, io, sse>>

\* cleanup_task: one step of "for session_id, session in self.sessions.items()".
\* The iterator raises RuntimeError when the dict has another size than at
\* its creation, and nothing in cleanup_task catches it.  With the size
\* unchanged but an entry replaced, it raises or goes on.
CleanerNext(c) ==
    /\ cleaners[c].pc = "iter"
    /\ \/ /\ \/ Cardinality(DOMAIN sessions) # cleaners[c].it_size
             \/ ~(cleaners[c].seen \subseteq DOMAIN sessions)
          /\ cleaners' = [cleaners EXCEPT ![c] = Cleaner("crashed", 0, 0, {}, {}, 0)]
       \/ /\ Cardinality(DOMAIN sessions) = cleaners[c].it_size
          /\ \E k \in DOMAIN sessions \ cleaners[c].seen :
                cleaners' = [cleaners EXCEPT
                                ![c].seen = @ \cup {k},
                                ![c].expired = IF sessions[k].expires_at < cleaners[c].current_time
                                               THEN @ \cup {k} ELSE @]
       \/ /\ Cardinality(DOMAIN sessions) = cleaners[c].it_size
          /\ DOMAIN sessions \ cleaners[c].seen = {}
          /\ cleaners' = [cleaners EXCEPT ![c] = Cleaner("pop", 0, 0, {}, cleaners[c].expired, 0)]
    /\ UNCHANGED <<running, sessions, tools_cache, skills, config, transports, now, out, thr, pg, io, sse>>

\* cleanup_task: self.sessions.pop(session_id, None) for one collected id
CleanerPop(c) ==
    /\ cleaners[c].pc = "pop"
    /\ \E k \in cleaners[c].expired :
          /\ sessions' = Pop(sessions, k)
          /\ cleaners' = [cleaners EXCEPT ![c].expired = @ \ {k}]
    /\ UNCHANGED <<running, tools_cache, skills, config, transports, now, out, thr, pg, io, sse>>

\* cleanup_task: the sweep is over, time.sleep(cleanup_interval)
CleanerSleep(c) ==
    /\ cleaners[c].pc = "pop"
    /\ cleaners[c].expired = {}
    /\ cleaners' = [cleaners EXCEPT ![c] = SleepingCleaner(now + CleanupInterval)]
    /\ UNCHANGED <<running, sessions, tools_cache, skills, config, transports, now, out, thr, pg, io, sse>>

\* the server is started once: one cleanup thread
StartOnce == cleaners = <<>> /\ Start

NextConc ==
    \/ Tick
    \/ StartOnce
    \/ Stop
    \/ \E t \in Threads : InitializeBegin(t)
    \/ \E t \in Threads : InitializeStore(t)
    \/ CloseCheck
    \/ ClosePop
    \/ \E c \in 1..Len(cleaners) : CleanerWake(c)
    \/ \E c \in 1..Len(cleaners) : CleanerNext(c)
    \/ \E c \in 1..Len(cleaners) : CleanerPop(c)
    \/ \E c \in 1..Len(cleaners) : CleanerSleep(c)

SpecConc == InitConc /\ [][NextConc]_vars

\* the two transport threads handle initialize requests and nothing removes
\* a session
NextRace ==
    \/ Tick
    \/ StartOnce
    \/ \E t \in Threads : InitializeBegin(t)
    \/ \E t \in Threads : InitializeStore(t)

SpecRace == InitConc /\ [][NextRace]_vars

(***************************************************************************)
(* SpecPage: a client lists the tools page by page.  It sends tools/list   *)
(* without a cursor, then again with the nextCursor of each answer for as  *)
(* long as the answer has one.                                             *)
(***************************************************************************)
SkillPool == {SkAdd, SkBoom, SkRaw, SkEcho, SkConcat}

\* the registries of at most MaxTools skills with distinct names
PageRegistries ==
    {sk \in UNION {[1..n -> SkillPool] : n \in 0..MaxTools} :
        \A i, j \in 1..Len(sk) : i # j => sk[i].name # sk[j].name}

\* pagination.page_size left to its default, or set to 0..MaxPageSize
PageConfigs == {ConfDev} \cup {ConfPaged(ps) : ps \in 0..MaxPageSize}

InitPage == InitWith(PageConfigs, PageRegistries)

\* the client sends one tools/list request and reads the answer
Fetch(params) ==
    \E message \in {Request(IdInt(1), "tools/list", params)} :
    \E r \in {handle_message(skills, config, sessions, tools_cache, message, now)} :
    \E result \in {r.ret.items[1].result} :
       /\ r.ret.kind = "single"
       /\ r.ret.items[1].hasResult
       /\ sessions' = r.sessions
       /\ tools_cache' = r.tools_cache
       /\ out' = Out("handle_message", message, r.ret, r.calls, 0, FALSE)
       /\ pg' = [phase |-> IF result.hasNext THEN "paging" ELSE "done",
                 cursor |-> IF result.hasNext THEN CurStr(result.nextCursor) ELSE CurAbsent,
                 acc |-> pg.acc \o result.tools,
                 odd |-> ~pg.odd]
       /\ UNCHANGED <<running, skills, config, transports, cleaners, now, thr, io, sse>>

PageFirst ==
    /\ pg.phase = "idle"
    /\ Fetch(EmptyParams("object"))

PageNext ==
    /\ pg.phase = "paging"
    /\ Fetch(ListParams(pg.cursor))

NextPage == PageFirst \/ PageNext

SpecPage == InitPage /\ [][NextPage]_vars

\* the client goes on asking for as long as it holds a cursor
SpecPageFair == SpecPage /\ WF_vars(PageFirst) /\ WF_vars(PageNext)

(***************************************************************************)
(* SpecList: tools/list requests with every kind of cursor, on registries  *)
(* and page sizes of every small size                                      *)
(***************************************************************************)
\* pagination.page_size left to its default, or set to -1..MaxPageSize
ListConfigs == PageConfigs \cup {ConfPaged(-1)}

ListMessages == {Request(IdInt(1), "tools/list", p) : p \in ParamsFor("tools/list")}

InitList == InitWith(ListConfigs, PageRegistries)

HandleListMessage == HandleMessageFrom(ListMessages)

NextList == HandleListMessage

SpecList == InitList /\ [][NextList]_vars

(***************************************************************************)
(* SpecWire: handle_message on the strings the transports give it, and the *)
(* loop of the stdio transport                                             *)
(***************************************************************************)
WireRegistry == <<SkAdd, SkBoom, SkRaw, SkExit>>

\* the elements of the batches
BatchElems ==
    {Request(IdInt(1), "ping", EmptyParams("absent")),
     Request(IdInt(2), "initialize", InitParams("c1")),
     Request(IdInt(3), "tools/call", EmptyParams("array")),
     Request(IdNull, "tools/call", CallParams("add", ArgsFull(40, 2))),
     Notification("notifications/initialized", EmptyParams("absent"))}

SingleElems ==
    BatchElems \cup {Request(IdInt(1), "tools/call", CallParams("exit", ArgsAbsent)),
                     Request(IdInt(1), "tools/call", CallParams("boom", ArgsAbsent)),
                     JsonScalar("int"), JsonScalar("null")}

Batches(n) == UNION {[1..k -> BatchElems] : k \in 0..n}

WireInputs ==
    {MalformedText, NaNText}
    \cup {SingleText(m) : m \in SingleElems}
    \cup {BatchText(ms) : ms \in Batches(MaxBatch)}
    \cup {NaNBatchText(ms) : ms \in Batches(1)}

InitWire == InitWith({ConfTesting}, {WireRegistry})

\* handle_message called with a string, as FastAPITransport and the tests do
\* it: raised says that an exception left it
HandleInput ==
    \E input \in WireInputs :
        \E r \in {handle_message_str(skills, config, sessions, tools_cache, input, now)} :
            /\ DOMAIN r.sessions \subseteq 1..MaxSessions
            /\ sessions' = r.sessions
            /\ tools_cache' = r.tools_cache
            /\ out' = Out("handle_input", input, r.ret, r.calls, 0, r.ret = RetRaised)
            /\ UNCHANGED <<running, skills, config, transports, cleaners, now, thr, pg, io, sse>>

\* one pass of the loop of StdioTransport._stdio_loop on a line that is not
\* blank: _process_line gives the line to handle_message and writes what it
\* returns.  SystemExit is caught by neither "except Exception": it ends the
\* thread of the loop.
StdioLine ==
    /\ TransportUp("stdio")
    /\ thr["stdio"].pc # "dead"
    /\ \E input \in WireInputs :
          \E r \in {handle_message_str(skills, config, sessions, tools_cache, input, now)} :
              /\ DOMAIN r.sessions \subseteq 1..MaxSessions
              /\ sessions' = r.sessions
              /\ tools_cache' = r.tools_cache
              /\ thr' = IF r.ret = RetRaised
                        THEN [thr EXCEPT !["stdio"].pc = "dead"]
                        ELSE thr
              /\ out' = Out("stdio_line", input, r.ret, r.calls, 0, r.ret = RetRaised)
    /\ UNCHANGED <<running, skills, config, transports, cleaners, now, pg, io, sse>>

\* mutant: POST /mcp answers 200 whatever handle_message returned
HandleJsonrpc_always_200 ==
    /\ TransportUp("http")
    /\ \E input \in WireInputs, key \in KeysPresented(config) :
          \E r \in {handle_message_str(skills, config, sessions, tools_cache, input, now)} :
              /\ DOMAIN r.sessions \subseteq 1..MaxSessions
              /\ sessions' = r.sessions
              /\ tools_cache' = r.tools_cache
              /\ out' = [Out("handle_jsonrpc", input, r.ret, r.calls,
                             IF r.ret = RetRaised THEN 0 ELSE 200, r.ret = RetRaised)
                         EXCEPT !.key = key]
    /\ UNCHANGED <<running, skills, config, transports, cleaners, now, thr, pg, io, sse>>

\* FastAPITransport handle_jsonrpc (POST /mcp): when http.auth.enabled is
\* true the handler does nothing about it ("pass") and goes on.  The body is
\* given to handle_message; None is answered by 202 without body, anything
\* else by 200 with what was returned as body.  When an exception leaves
\* handle_message the handler answers nothing (status 0, raised).
HandleJsonrpc ==
    /\ TransportUp("http")
    /\ \E input \in WireInputs, key \in KeysPresented(config) :
          \E r \in {handle_message_str(skills, config, sessions, tools_cache, input, now)} :
              /\ DOMAIN r.sessions \subseteq 1..MaxSessions
              /\ sessions' = r.sessions
              /\ tools_cache' = r.tools_cache
              /\ out' = [Out("handle_jsonrpc", input, r.ret, r.calls,
                             IF r.ret = RetRaised THEN 0
                             ELSE IF r.ret = RetNull THEN 202 ELSE 200,
                             r.ret = RetRaised)
                         EXCEPT !.key = key]
    /\ UNCHANGED <<running, skills, config, transports, cleaners, now, thr, pg, io, sse>>

NextWire ==
    \/ Start
    \/ HandleInput
    \/ StdioLine
    \/ HandleJsonrpc

SpecWire == InitWire /\ [][NextWire]_vars

(***************************************************************************)
(* SpecAuth: POST /mcp on a server whose configuration enables the API key *)
(* authentication                                                          *)
(***************************************************************************)
InitAuth == InitWith({ConfAuth}, {WireRegistry})

NextAuth ==
    \/ Start
    \/ HandleJsonrpc

SpecAuth == InitAuth /\ [][NextAuth]_vars

(***************************************************************************)
(* SpecConv: the converter of type tokens is applied to Union and Optional *)
(* tokens whose members are type tokens, one inside the other up to        *)
(* MaxNest, written with and without a space after the commas.             *)
(***************************************************************************)
Seps == {<<",">>, <<",", " ">>}

Generic(name, inner) == <<name, "[">> \o inner \o <<"]">>

\* the type tokens nested up to n
RECURSIVE Members(_)
Members(n) ==
    IF n = 0 THEN {<<"int">>, <<"str">>, <<"None">>}
    ELSE Members(0)
         \cup {Generic("List", t) : t \in Members(n - 1)}
         \cup {Generic("Dict", <<"str">> \o sep \o t) : sep \in Seps, t \in Members(n - 1)}
         \cup {Generic("Union", a \o <<",">> \o b) : a, b \in Members(0)}

\* the members of ms, sep between them
RECURSIVE Join(_, _)
Join(ms, sep) ==
    IF Len(ms) = 0 THEN <<>>
    ELSE IF Len(ms) = 1 THEN ms[1]
    ELSE ms[1] \o sep \o Join(Tail(ms), sep)

MemberLists == UNION {[1..k -> Members(MaxNest)] : k \in 1..MaxMembers}

\* a token with what was put into it
UnionToken(ms, sep) == [token |-> Generic("Union", Join(ms, sep)), members |-> ms]

OptionalToken(m) == [token |-> Generic("Optional", m), members |-> <<m>>]

TypeTokens ==
    {UnionToken(ms, sep) : ms \in MemberLists, sep \in Seps}
    \cup {OptionalToken(m) : m \in Members(MaxNest)}

InitConv == InitWith({ConfDev}, {BaseRegistry})

\* _map_python_type_to_json_schema(python_type), as skill_metadata_to_mcp_tool
\* calls it for the type of a parameter; it is applied to one token
MapType ==
    /\ out.op = "init"
    /\ \E t \in TypeTokens :
          out' = Out("map_type", t, _map_python_type_to_json_schema(t.token), <<>>, 0, FALSE)
    /\ UNCHANGED <<running, sessions, tools_cache, skills, config, transports, cleaners,
                   now, thr, pg, io, sse>>

NextConv == MapType

SpecConv == InitConv /\ [][NextConv]_vars

(***************************************************************************)
(* SpecSse: the SSE streams of GET /mcp.  Clients connect and disconnect,  *)
(* notifications are sent and broadcast, the server is stopped and started. *)
(***************************************************************************)
SseMessages == {"m1", "m2"}

\* what a stream yields: the event "connected", a data frame with a message,
\* or a keep-alive comment
Frame(kind, c, message) == [kind |-> kind, id |-> c, data |-> message]

InitSse == InitWith({ConfDev}, {BaseRegistry})

\* handle_sse (GET /mcp): 406 unless the accept header holds
\* text/event-stream; otherwise a StreamingResponse over a new
\* event_generator, which has not run yet
HandleSse ==
    /\ TransportUp("http")
    /\ Len(sse.conns) < MaxConns
    /\ \E accepts \in BOOLEAN :
          IF accepts
          THEN /\ sse' = [sse EXCEPT !.conns = Append(@, Connection)]
               /\ out' = Out("handle_sse", NoMsg, RetNull, <<>>, 200, FALSE)
          ELSE /\ UNCHANGED sse
               /\ out' = Out("handle_sse", NoMsg, RetNull, <<>>, 406, TRUE)
    /\ UNCHANGED <<running, sessions, tools_cache, skills, config, transports, cleaners,
                   now, thr, pg, io>>

\* event_generator up to its loop: the event "connected" with the connection
\* id is yielded, then the queue is made and put into sse_connections
EventGeneratorBegin(c) ==
    /\ sse.conns[c].pc = "start"
    /\ sse' = [sse EXCEPT !.conns[c].pc = "open",
                          !.conns[c].emitted = <<Frame("connected", c, "")>>,
                          !.registry = @ \cup {c}]
    /\ out' = OutOp("event_generator")
    /\ UNCHANGED <<running, sessions, tools_cache, skills, config, transports, cleaners,
                   now, thr, pg, io>>

\* mutant: the stream takes the newest message of its queue
EventGeneratorNext_newest_first(c) ==
    /\ sse.conns[c].pc = "open"
    /\ IF sse.conns[c].queue = <<>>
       THEN /\ sse.conns[c].timeouts < MaxKeepAlives
            /\ sse' = [sse EXCEPT !.conns[c].emitted = Append(@, Frame("keep-alive", c, "")),
                                  !.conns[c].timeouts = @ + 1]
       ELSE \E n \in {Len(sse.conns[c].queue)} :
               IF sse.conns[c].queue[n] = "None"
               THEN sse' = [sse EXCEPT !.conns[c].pc = "ended",
                                       !.conns[c].queue = SubSeq(@, 1, n - 1),
                                       !.registry = @ \ {c}]
               ELSE sse' = [sse EXCEPT !.conns[c].queue = SubSeq(@, 1, n - 1),
                                       !.conns[c].emitted =
                                           Append(@, Frame("data", c, sse.conns[c].queue[n]))]
    /\ out' = OutOp("event_generator")
    /\ UNCHANGED <<running, sessions, tools_cache, skills, config, transports, cleaners,
                   now, thr, pg, io>>

\* one turn of the loop of event_generator: wait_for(queue.get(), 30) times
\* out when the queue stays empty, and a keep-alive comment is yielded; None
\* ends the loop, and the "finally" pops the connection from
\* sse_connections; any other message is yielded as one data frame
EventGeneratorNext(c) ==
    /\ sse.conns[c].pc = "open"
    /\ IF sse.conns[c].queue = <<>>
       THEN /\ sse.conns[c].timeouts < MaxKeepAlives
            /\ sse' = [sse EXCEPT !.conns[c].emitted = Append(@, Frame("keep-alive", c, "")),
                                  !.conns[c].timeouts = @ + 1]
       ELSE IF Head(sse.conns[c].queue) = "None"
       THEN sse' = [sse EXCEPT !.conns[c].pc = "ended",
                               !.conns[c].queue = Tail(@),
                               !.registry = @ \ {c}]
       ELSE sse' = [sse EXCEPT !.conns[c].queue = Tail(@),
                               !.conns[c].emitted =
                                   Append(@, Frame("data", c, Head(sse.conns[c].queue)))]
    /\ out' = OutOp("event_generator")
    /\ UNCHANGED <<running, sessions, tools_cache, skills, config, transports, cleaners,
                   now, thr, pg, io>>

\* the client goes away: the generator is cancelled or closed where it
\* waits, and its "finally" pops the connection from sse_connections
StreamEnds(c) ==
    /\ sse.conns[c].pc \in {"start", "open"}
    /\ sse' = [sse EXCEPT !.conns[c].pc = "ended", !.registry = @ \ {c}]
    /\ out' = OutOp("stream_ends")
    /\ UNCHANGED <<running, sessions, tools_cache, skills, config, transports, cleaners,
                   now, thr, pg, io>>

\* what queue.put(message) does to a connection
PutMessage(conn, message) ==
    [conn EXCEPT !.queue = Append(@, message), !.enq = Append(@, message)]

\* send_notification(connection_id, message), called on the event loop of
\* the server: the message is put into the queue of a connection that is in
\* sse_connections, and True is returned; otherwise False
SendNotification ==
    /\ \E c \in 1..MaxConns, message \in SseMessages :
          IF c \in sse.registry
          THEN /\ Len(sse.conns[c].enq) < MaxMsgs
               /\ sse' = [sse EXCEPT !.conns[c] = PutMessage(@, message)]
               /\ out' = Out("send_notification", NoMsg, RetNull, <<>>, 1, FALSE)
          ELSE /\ UNCHANGED sse
               /\ out' = Out("send_notification", NoMsg, RetNull, <<>>, 0, FALSE)
    /\ UNCHANGED <<running, sessions, tools_cache, skills, config, transports, cleaners,
                   now, thr, pg, io>>

\* broadcast_notification(message): the message is put into the queue of
\* every connection of sse_connections
BroadcastNotification ==
    /\ \A c \in sse.registry : Len(sse.conns[c].enq) < MaxMsgs
    /\ \E message \in SseMessages :
          sse' = [sse EXCEPT !.conns = [c \in DOMAIN sse.conns |->
                                           IF c \in sse.registry
                                           THEN PutMessage(sse.conns[c], message)
                                           ELSE sse.conns[c]]]
    /\ out' = OutOp("broadcast_notification")
    /\ UNCHANGED <<running, sessions, tools_cache, skills, config, transports, cleaners,
                   now, thr, pg, io>>

NextSse ==
    \/ Start
    \/ Stop
    \/ HandleSse
    \/ \E c \in DOMAIN sse.conns : EventGeneratorBegin(c)
    \/ \E c \in DOMAIN sse.conns : EventGeneratorNext(c)
    \/ \E c \in DOMAIN sse.conns : StreamEnds(c)
    \/ SendNotification
    \/ BroadcastNotification

SpecSse == InitSse /\ [][NextSse]_vars

(***************************************************************************)
(* SpecTools: get_tools is called, with and without refresh, while skills  *)
(* are registered in the skill manager.                                    *)
(***************************************************************************)
InitTools == InitWith({ConfDev}, PageRegistries)

\* SkillManager.register_skill: one more skill, under a name not yet there
RegisterSkill ==
    /\ Len(skills) < MaxTools
    /\ \E s \in SkillPool :
          /\ ~HasSkill(skills, s.name)
          /\ skills' = Append(skills, s)
    /\ out' = OutOp("register_skill")
    /\ UNCHANGED <<running, sessions, tools_cache, config, transports, cleaners, now,
                   thr, pg, io, sse>>

\* InstantMCPServer.get_tools(refresh); out.request keeps the argument and
\* the cache the call found, out.ret the list it returned
GetTools ==
    /\ \E refresh \in BOOLEAN :
          \E r \in {get_tools(skills, tools_cache, refresh)} :
              /\ tools_cache' = r.cache
              /\ out' = Out("get_tools", [refresh |-> refresh, before |-> tools_cache],
                            r.tools, <<>>, 0, FALSE)
    /\ UNCHANGED <<running, sessions, skills, config, transports, cleaners, now,
                   thr, pg, io, sse>>

NextTools ==
    \/ RegisterSkill
    \/ GetTools

SpecTools == InitTools /\ [][NextTools]_vars

(***************************************************************************)
(* SpecStdio: the loop of the stdio transport.  Lines arrive on sys.stdin, *)
(* the loop reads what is there into its buffer, takes the lines of the    *)
(* buffer one by one and writes what handle_message returns on sys.stdout. *)
(***************************************************************************)
\* a line that holds only white space
BlankLine == Input("blank", "single", <<>>)

\* the lines a client writes
StdinLines ==
    {BlankLine, MalformedText,
     SingleText(Request(IdInt(1), "ping", EmptyParams("absent"))),
     SingleText(Request(IdInt(2), "ping", EmptyParams("absent"))),
     SingleText(Request(IdInt(3), "tools/call", CallParams("add", ArgsFull(40, 2)))),
     SingleText(Notification("notifications/initialized", EmptyParams("absent"))),
     SingleText(Request(IdInt(1), "tools/call", CallParams("exit", ArgsAbsent)))}

InitStdio == InitWith({ConfTesting}, {WireRegistry})

\* the client writes one more line on the stdin of the server
StdinArrive ==
    /\ io.n < MaxLines
    /\ \E input \in StdinLines :
          io' = [io EXCEPT !.n = io.n + 1,
                           !.stdin = Append(io.stdin, [k |-> io.n + 1, input |-> input])]
    /\ UNCHANGED <<running, sessions, tools_cache, skills, config, transports, cleaners,
                   now, out, thr, pg, sse>>

\* _stdio_loop, sys.stdin.read(1024) once the buffer holds no whole line: the
\* read gives some of the lines that are there, in their order.  When nothing
\* is there the read that does not block gives the empty string, which the
\* loop takes for the end of the input: it leaves the loop.
StdioRead ==
    /\ TransportUp("stdio")
    /\ thr["stdio"].pc # "dead"
    /\ io.buffer = <<>>
    /\ IF io.stdin = <<>>
       THEN /\ thr' = [thr EXCEPT !["stdio"].pc = "dead"]
            /\ UNCHANGED io
       ELSE /\ \E j \in 1..Len(io.stdin) :
                  io' = [io EXCEPT !.buffer = SubSeq(io.stdin, 1, j),
                                   !.stdin = SubSeq(io.stdin, j + 1, Len(io.stdin))]
            /\ UNCHANGED thr
    /\ out' = OutOp("stdio_read")
    /\ UNCHANGED <<running, sessions, tools_cache, skills, config, transports, cleaners,
                   now, pg, sse>>

\* mutant: the loop takes the last line of its buffer
StdioProcess_last_first ==
    /\ TransportUp("stdio")
    /\ thr["stdio"].pc # "dead"
    /\ io.buffer # <<>>
    /\ \E line \in {io.buffer[Len(io.buffer)]} :
          IF line.input = BlankLine
          THEN /\ io' = [io EXCEPT !.buffer = SubSeq(io.buffer, 1, Len(io.buffer) - 1)]
               /\ out' = OutOp("stdio_skip")
               /\ UNCHANGED <<sessions, tools_cache, thr>>
          ELSE \E r \in {handle_message_str(skills, config, sessions, tools_cache,
                                            line.input, now)} :
                  /\ DOMAIN r.sessions \subseteq 1..MaxSessions
                  /\ sessions' = r.sessions
                  /\ tools_cache' = r.tools_cache
                  /\ thr' = IF r.ret = RetRaised
                            THEN [thr EXCEPT !["stdio"].pc = "dead"]
                            ELSE thr
                  /\ io' = [io EXCEPT !.buffer = SubSeq(io.buffer, 1, Len(io.buffer) - 1),
                                      !.handled = Append(io.handled, line.k),
                                      !.stdout = IF r.ret \in {RetRaised, RetNull}
                                                 THEN io.stdout
                                                 ELSE Append(io.stdout,
                                                             [k |-> line.k, ret |-> r.ret])]
                  /\ out' = Out("stdio_process", line.input, r.ret, r.calls, 0,
                                r.ret = RetRaised)
    /\ UNCHANGED <<running, skills, config, transports, cleaners, now, pg, sse>>

\* _stdio_loop, one turn of "while '\n' in buffer": the first line is split
\* off the buffer; a line that is not blank is given to _process_line, which
\* calls handle_message and writes and flushes what it returns unless it is
\* None.  SystemExit ends the thread of the loop.
StdioProcess ==
    /\ TransportUp("stdio")
    /\ thr["stdio"].pc # "dead"
    /\ io.buffer # <<>>
    /\ \E line \in {Head(io.buffer)} :
          IF line.input = BlankLine
          THEN /\ io' = [io EXCEPT !.buffer = Tail(io.buffer)]
               /\ out' = OutOp("stdio_skip")
               /\ UNCHANGED <<sessions, tools_cache, thr>>
          ELSE \E r \in {handle_message_str(skills, config, sessions, tools_cache,
                                            line.input, now)} :
                  /\ DOMAIN r.sessions \subseteq 1..MaxSessions
                  /\ sessions' = r.sessions
                  /\ tools_cache' = r.tools_cache
                  /\ thr' = IF r.ret = RetRaised
                            THEN [thr EXCEPT !["stdio"].pc = "dead"]
                            ELSE thr
                  /\ io' = [io EXCEPT !.buffer = Tail(io.buffer),
                                      !.handled = Append(io.handled, line.k),
                                      !.stdout = IF r.ret \in {RetRaised, RetNull}
                                                 THEN io.stdout
                                                 ELSE Append(io.stdout,
                                                             [k |-> line.k, ret |-> r.ret])]
                  /\ out' = Out("stdio_process", line.input, r.ret, r.calls, 0,
                                r.ret = RetRaised)
    /\ UNCHANGED <<running, skills, config, transports, cleaners, now, pg, sse>>

NextStdio ==
    \/ Start
    \/ StdinArrive
    \/ StdioRead
    \/ StdioProcess

SpecStdio == InitStdio /\ [][NextStdio]_vars

(***************************************************************************)
(* Properties of the dispatch (Spec)                                       *)
(***************************************************************************)
Handled == out.op = "handle_message"

\* the single response handle_message returned
TheResponse == out.ret.items[1]

\* a tools/call request whose params is a dict with a "name" member
IsCallWithName ==
    /\ Handled
    /\ out.request.hasId
    /\ out.request.method = "tools/call"
    /\ out.request.params.pk = "object"
    /\ out.request.params.hasName

Registered(name) == name \in Range(get_skill_names(skills))

\* C1: a request with an id, with params absent, a dict or a list, and with
\* one of the four request methods, gets exactly one response, and the id of
\* that response is the id of the request.
C1_ResponseCarriesRequestId ==
    (/\ Handled
     /\ out.request.hasId
     /\ out.request.method \in RequestMethods
     /\ out.request.params.pk \in {"absent", "object", "array"})
    => (out.ret.kind = "single" /\ Len(out.ret.items) = 1 /\ TheResponse.id = out.request.id)

\* C2: a message without an id member gets no response, whatever its method:
\* handle_message returns None.
C2_NotificationReturnsNull ==
    (Handled /\ ~out.request.hasId) => out.ret = RetNull

C2_Witness ==
    /\ Handled
    /\ ~out.request.hasId
    /\ out.request.method = "tools/call"
    /\ out.ret = RetNull

\* the call of the named skill with the given arguments raises
InvocationRaises ==
    /\ get_skill_by_name(skills, out.request.params.name).kind # "none"
    /\ CallSkill(get_skill_by_name(skills, out.request.params.name).fn,
                 out.request.params.arguments).raised

\* C3: when the invocation of a registered tool raises, tools/call answers
\* with a success response carrying the id of the request: it has a result
\* with isError true and a text, and no error member.
C3_ToolFailureIsSuccessResponse ==
    (IsCallWithName /\ Registered(out.request.params.name) /\ InvocationRaises)
    => /\ out.ret.kind = "single"
       /\ TheResponse.id = out.request.id
       /\ TheResponse.hasResult
       /\ ~TheResponse.hasError
       /\ TheResponse.result.isError
       /\ Len(TheResponse.result.content) >= 1
       /\ TheResponse.result.content[1].type = "text"
       /\ TheResponse.result.content[1].text # <<>>

C3_Witness ==
    /\ IsCallWithName
    /\ out.request.params.name = "add"
    /\ out.request.params.arguments = ArgsPartial(40)
    /\ out.request.id = IdInt(1)
    /\ TheResponse.hasResult
    /\ TheResponse.result.isError

\* C4 as stated: a tool name that is not in the registry gets a success
\* response whose result has isError true.
C4_UnknownToolIsErrorResult ==
    (IsCallWithName /\ ~Registered(out.request.params.name))
    => /\ out.ret.kind = "single"
       /\ TheResponse.hasResult
       /\ ~TheResponse.hasError
       /\ TheResponse.result.isError

\* C4 amended: a tool name that is not in the registry gets a JSON-RPC error
\* response (an error member and no result member, hence no isError) with the
\* id of the request; the code is -32601, or -32602 when the name is empty.
C4_UnknownToolIsErrorResponse ==
    (IsCallWithName /\ ~Registered(out.request.params.name))
    => /\ out.ret.kind = "single"
       /\ TheResponse.id = out.request.id
       /\ TheResponse.hasError
       /\ ~TheResponse.hasResult
       /\ TheResponse.code = (IF out.request.params.name = "" THEN INVALID_PARAMS
                              ELSE METHOD_NOT_FOUND)

C4_Witness ==
    /\ IsCallWithName
    /\ out.request.params.name = "ghost"
    /\ TheResponse.hasError
    /\ TheResponse.code = METHOD_NOT_FOUND

\* C5 as stated: tools/call with a name that is not registered gets an error
\* response with code -32601 and the id of the request, and execute_tool is
\* not called.
C5_UnknownNameIsMethodNotFound ==
    (IsCallWithName /\ ~Registered(out.request.params.name))
    => /\ out.ret.kind = "single"
       /\ TheResponse.hasError
       /\ TheResponse.code = METHOD_NOT_FOUND
       /\ TheResponse.id = out.request.id
       /\ out.calls = <<>>

\* C5 amended: tools/call with a non-empty name that is not registered gets
\* an error response with code -32601 and the id of the request, and
\* execute_tool is not called.
C5_UnknownNonEmptyNameIsMethodNotFound ==
    (IsCallWithName /\ out.request.params.name # "" /\ ~Registered(out.request.params.name))
    => /\ out.ret.kind = "single"
       /\ TheResponse.hasError
       /\ TheResponse.code = METHOD_NOT_FOUND
       /\ TheResponse.id = out.request.id
       /\ out.calls = <<>>

C5_Witness ==
    /\ IsCallWithName
    /\ out.request.params.name = "ghost"
    /\ out.request.params.arguments = ArgsFull(40, 2)
    /\ out.request.id = IdInt(1)
    /\ TheResponse.id = IdInt(1)
    /\ out.calls = <<>>

(***************************************************************************)
(* Properties of the session table (SpecLife)                              *)
(***************************************************************************)
\* C6: every successful initialize adds exactly one session: the table holds
\* one more session than before, and every session it held is still there
\* unchanged.
C6_InitializeAddsOneSession ==
    [][(/\ out'.op = "handle_message"
        /\ out'.request.hasId
        /\ out'.request.method = "initialize"
        /\ out'.ret.kind = "single"
        /\ out'.ret.items[1].hasResult)
       => (/\ Cardinality(DOMAIN sessions') = Cardinality(DOMAIN sessions) + 1
           /\ \A k \in DOMAIN sessions : k \in DOMAIN sessions' /\ sessions'[k] = sessions[k])]_vars

C37_ExpiryNeverExtended ==
    [][\A k \in DOMAIN sessions \cap DOMAIN sessions' :
          sessions'[k].expires_at <= sessions[k].expires_at]_vars

(***************************************************************************)
(* Properties of the threads (SpecConc)                                    *)
(***************************************************************************)
\* the threads that are inside an access to the session table: between the
\* read of the table and the write that rests on it (handle_initialize,
\* handle_session_close), or inside the sweep (cleanup_task)
InAccess ==
    {<<"transport", t>> : t \in {u \in Threads : thr[u].pc \in {"store", "pop"}}}
    \cup {<<"cleanup", c>> : c \in {d \in 1..Len(cleaners) : cleaners[d].pc \in {"iter", "pop"}}}

\* C7: the accesses to the session table are made under one shared lock: no
\* two threads are inside such an access at the same time.
C7_AccessesAreExclusive == Cardinality(InAccess) <= 1

\* C8: while running is true, no change of the session table made by another
\* thread breaks the iteration of a sweep and ends the cleanup task.
C8_SweepIsNeverBroken ==
    [][\A c \in 1..Len(cleaners) :
          (running /\ cleaners[c].pc = "iter") => cleaners'[c].pc # "crashed"]_vars

(***************************************************************************)
(* Properties of the pagination (SpecPageFair)                             *)
(***************************************************************************)
\* the full tool list of the registry
FullTools == ToolsOf(skills, get_skill_names(skills))

\* C10 as stated: for every page size, following nextCursor from a request
\* without cursor terminates, and the pages received make up the full tool
\* list, in order, every tool once.
C10_PagingYieldsFullList ==
    /\ <>(pg.phase = "done")
    /\ [](pg.phase = "done" => pg.acc = FullTools)

\* C10 amended: the same for every page size that is at least 1.
C10_PagingYieldsFullListForPositivePageSize ==
    /\ (PageSize(config) >= 1) ~> (pg.phase = "done")
    /\ []((PageSize(config) >= 1 /\ pg.phase = "done") => pg.acc = FullTools)

\* three tools were received in three pages
C10_Witness ==
    /\ PageSize(config) = 1
    /\ pg.phase = "done"
    /\ Len(pg.acc) = 3
    /\ pg.acc = FullTools
    /\ out.request.params.cursor = CurStr(<<"2">>)

(***************************************************************************)
(* Properties of tools/list (SpecList)                                     *)
(***************************************************************************)
\* a tools/list request whose params is a dict
IsList ==
    /\ Handled
    /\ out.request.hasId
    /\ out.request.method = "tools/list"
    /\ out.request.params.pk = "object"

\* the cursor is an int that is not negative, or text that int() reads as one
IsOffset(cursor) ==
    \/ cursor.t = "int" /\ cursor.n >= 0
    \/ cursor.t = "str" /\ PyIntOfStr(cursor.s).ok /\ PyIntOfStr(cursor.s).v >= 0

\* what the same request without a cursor is answered
NoCursorResponse ==
    handle_list_tools(skills, config, sessions, tools_cache, ListParams(CurAbsent),
                      out.request.id).resp

\* C11: a tools/list whose cursor is not a non-negative integer offset
\* (unparseable text, a wrong type, a negative number) is never answered with
\* an error, and its page is the page of the same request without cursor.
C11_InvalidCursorStartsAtZero ==
    (IsList /\ ~IsOffset(out.request.params.cursor))
    => /\ TheResponse.hasResult
       /\ ~TheResponse.hasError
       /\ TheResponse = NoCursorResponse

\* the offset a page starts at, and the elements of seq from position lo + 1
\* to position hi
PageStart == StartIndex(out.request.params.cursor)

Segment(seq, lo, hi) == [i \in 1..(IF hi > lo THEN hi - lo ELSE 0) |-> seq[lo + i]]

\* C12: the page that starts at offset start ends at endIndex = min(start +
\* pageSize, totalTools) and is tools[start:endIndex]; the result has
\* nextCursor exactly when endIndex < totalTools, and it is then the decimal
\* string of endIndex.
C12_PageAndNextCursor ==
    (IsList /\ TheResponse.hasResult)
    => LET total == Len(FullTools)
           endIndex == Min(PageStart + PageSize(config), total)
           \* a negative index counts from the end of the list
           lo == IF PageStart < 0 THEN Max(PageStart + total, 0) ELSE Min(PageStart, total)
           hi == IF endIndex < 0 THEN Max(endIndex + total, 0) ELSE endIndex
       IN /\ TheResponse.result.tools = Segment(FullTools, lo, hi)
          /\ TheResponse.result.hasNext <=> endIndex < total
          /\ TheResponse.result.hasNext => TheResponse.result.nextCursor = PyStr(endIndex)

\* the second of three pages: tools[1:2] and nextCursor "2"
C12_Witness ==
    /\ IsList
    /\ PageSize(config) = 1
    /\ PageStart = 1
    /\ Len(FullTools) = 3
    /\ TheResponse.result.tools = <<FullTools[2]>>
    /\ TheResponse.result.nextCursor = <<"2">>

\* the last operation gave handle_message a string
HandledInput == out.op \in {"handle_input", "stdio_line"}

\* the input is a JSON array whose elements are all JSON objects
IsBatchOfObjects ==
    /\ HandledInput
    /\ out.request.tk = "json"
    /\ out.request.top = "array"
    /\ \A i \in 1..Len(out.request.items) : out.request.items[i].jk = "object"

\* the elements of the batch that have an id, in their order
WithId(items) == SelectSeq(items, LAMBDA m : m.hasId)

\* C13: a batch of JSON objects is answered by an array holding one response
\* for each element that has an id, in the order of the elements and with
\* their ids; when no element has an id the return value is null.
C13_BatchOneResponsePerRequest ==
    IsBatchOfObjects
    => IF WithId(out.request.items) = <<>>
       THEN out.ret = RetNull
       ELSE /\ out.ret.kind = "array"
            /\ Len(out.ret.items) = Len(WithId(out.request.items))
            /\ \A i \in 1..Len(out.ret.items) :
                  out.ret.items[i].id = WithId(out.request.items)[i].id

\* a response has a result or an error, and not both
WellFormed(resp) == resp.hasResult # resp.hasError

\* the thread of the loop of the stdio transport has not ended
StdioLoopAlive == thr["stdio"].pc # "dead"

\* C14: handle_message never raises: on any input string it returns null or
\* well-formed JSON-RPC responses, and the loop of the stdio transport goes
\* on to the next line.
C14_NeverRaises ==
    /\ HandledInput
       => /\ ~out.raised
          /\ out.ret.kind \in {"null", "single", "array"}
          /\ \A i \in 1..Len(out.ret.items) : WellFormed(out.ret.items[i])
    /\ StdioLoopAlive

\* the text is not valid JSON: json.loads rejects it, or reads it although it
\* holds NaN or Infinity
NotValidJson(input) == input.tk \in {"malformed", "nonstandard"}

\* C15: an input string that is not valid JSON is answered by an error
\* response with code -32700 and id null, and the session table and the tools
\* cache are left as they were.
C15_InvalidJsonIsParseError ==
    [][(out'.op \in {"handle_input", "stdio_line"} /\ NotValidJson(out'.request))
       => /\ out'.ret.kind = "single"
          /\ out'.ret.items[1].hasError
          /\ out'.ret.items[1].code = PARSE_ERROR
          /\ out'.ret.items[1].id = IdNull
          /\ UNCHANGED <<sessions, tools_cache>>]_vars

\* C16: a request whose method is not exactly one of initialize, ping,
\* tools/list and tools/call is answered by an error response with code -32601
\* and the id of the request.
C16_UnknownMethodIsMethodNotFound ==
    (Handled /\ out.request.hasId /\ out.request.method \notin RequestMethods)
    => /\ out.ret.kind = "single"
       /\ TheResponse.hasError
       /\ ~TheResponse.hasResult
       /\ TheResponse.code = METHOD_NOT_FOUND
       /\ TheResponse.id = out.request.id

C16_Witness ==
    /\ Handled
    /\ out.request = Request(IdInt(1), "Ping", EmptyParams("array"))
    /\ TheResponse.code = METHOD_NOT_FOUND
    /\ TheResponse.id = IdInt(1)

\* a tools/call request whose params has no "name" member
IsCallWithoutName ==
    /\ Handled
    /\ out.request.hasId
    /\ out.request.method = "tools/call"
    /\ ~(out.request.params.pk = "object" /\ out.request.params.hasName)

\* C17: tools/call whose params has no name is answered by an error response
\* with code -32602 and the id of the request, and no tool is executed.
C17_MissingNameIsInvalidParams ==
    IsCallWithoutName
    => /\ out.ret.kind = "single"
       /\ TheResponse.hasError
       /\ TheResponse.code = INVALID_PARAMS
       /\ TheResponse.id = out.request.id
       /\ out.calls = <<>>

\* a result is the envelope: a list of text blocks and a boolean isError
IsEnvelope(result) ==
    /\ result.rk = "envelope"
    /\ result.isError \in BOOLEAN
    /\ \A i \in 1..Len(result.content) : result.content[i].type = "text"

\* C18: the result member of every tools/call success response is an
\* envelope with a content list of text blocks and a boolean isError,
\* whatever the skill returns or raises.
C18_ResultIsEnvelope ==
    (IsCallWithName /\ out.ret.kind = "single" /\ TheResponse.hasResult)
    => IsEnvelope(TheResponse.result)

\* what the call of the named skill with the given arguments gives
Returned ==
    CallSkill(get_skill_by_name(skills, out.request.params.name).fn,
              out.request.params.arguments)

\* C19: when a registered skill returns a value that is neither an exception
\* nor a dict with a content key, tools/call answers with a result whose
\* isError is false and whose content is exactly one text block holding the
\* string form of the value.
C19_ReturnedValueIsOneTextBlock ==
    (/\ IsCallWithName
     /\ Registered(out.request.params.name)
     /\ ~InvocationRaises
     /\ Returned.value.vk = "int")
    => /\ out.ret.kind = "single"
       /\ TheResponse.hasResult
       /\ TheResponse.id = out.request.id
       /\ TheResponse.result.isError = FALSE
       /\ Len(TheResponse.result.content) = 1
       /\ TheResponse.result.content[1] = TextBlock(PyStr(Returned.value.n))

C19_Witness ==
    /\ IsCallWithName
    /\ out.request.params.name = "add"
    /\ out.request.params.arguments = ArgsFull(40, 2)
    /\ TheResponse.result.isError = FALSE
    /\ TheResponse.result.content = <<TextBlock(<<"4", "2">>)>>

\* C20: the result of a successful initialize response has the members
\* protocolVersion, capabilities and serverInfo.
C20_InitializeResultHasProtocolVersion ==
    (/\ Handled
     /\ out.request.hasId
     /\ out.request.method = "initialize"
     /\ out.ret.kind = "single"
     /\ TheResponse.hasResult)
    => /\ TheResponse.result = InitResult
       /\ {"protocolVersion", "capabilities", "serverInfo"} \subseteq InitResultMembers

(***************************************************************************)
(* Properties of start and stop (SpecLife)                                 *)
(***************************************************************************)
\* C21: start() on a running server creates no transport, starts no cleanup
\* task and leaves running true; start() on a stopped server sets running,
\* starts one transport for each enabled kind and starts the cleanup task.
C21_StartIsIdempotent ==
    [][out'.op = "start"
       => IF running
          THEN UNCHANGED <<running, transports, cleaners>>
          ELSE /\ running'
               /\ transports' = EnabledTransports(config)
               /\ \A i \in 1..Len(transports') : transports'[i].running
               /\ Len(cleaners') = Len(cleaners) + 1
               /\ cleaners'[Len(cleaners')].pc = "sleep"]_vars

\* C36: when start() fails while starting a transport, the server is left
\* not running (so that a later start() is not the no-op of a running server).
C36_FailedStartNotRunning ==
    [][(out'.op = "start" /\ out'.raised) => ~running']_vars

\* C22: stop() on a running server leaves running false, every transport
\* that was started stopped and the session table empty; stop() on a server
\* that is not running changes nothing.
C22_StopStopsEverything ==
    [][out'.op = "stop"
       => IF running
          THEN /\ ~running'
               /\ Len(transports') = Len(transports)
               /\ \A i \in 1..Len(transports') :
                     /\ transports'[i].kind = transports[i].kind
                     /\ ~transports'[i].running
               /\ sessions' = EmptySessions
          ELSE UNCHANGED <<running, transports, sessions, tools_cache, cleaners>>]_vars

C22_Witness ==
    /\ out.op = "stop"
    /\ ~running
    /\ Len(transports) = 1
    /\ transports[1].kind = "http"
    /\ ~transports[1].running
    /\ sessions = EmptySessions
    /\ Len(cleaners) >= 1

\* C23: DELETE /mcp answers 204 and removes exactly the named session when
\* the Mcp-Session-Id header names a session of the table; otherwise (no
\* header, unknown id, id closed or swept before) it answers 404 and leaves
\* the table as it was.
C23_SessionCloseStatus ==
    [][out'.op = "session_close"
       => IF out'.request.present /\ out'.request.n \in DOMAIN sessions
          THEN /\ out'.status = 204
               /\ DOMAIN sessions' = DOMAIN sessions \ {out'.request.n}
               /\ \A k \in DOMAIN sessions' : sessions'[k] = sessions[k]
          ELSE /\ out'.status = 404
               /\ sessions' = sessions]_vars

C23_Witness ==
    /\ out.op = "session_close"
    /\ out.status = 204
    /\ out.request.n = 1
    /\ DOMAIN sessions = {2}

(***************************************************************************)
(* Properties of the transports (SpecWire)                                 *)
(***************************************************************************)
\* the posted text is JSON and holds notifications only: one object without
\* id, or an array of objects without id
OnlyNotifications(input) ==
    /\ input.tk = "json"
    /\ \A i \in 1..Len(input.items) : input.items[i].jk = "object" /\ ~input.items[i].hasId

\* the posted text is JSON and holds a request: one object with an id, or an
\* array of objects of which one has an id
HoldsRequest(input) ==
    /\ input.tk = "json"
    /\ \A i \in 1..Len(input.items) : input.items[i].jk = "object"
    /\ \E i \in 1..Len(input.items) : input.items[i].hasId

\* C24: POST /mcp answers 200 with a body exactly when handle_message
\* returned a response, which it does for a request and for a batch holding
\* a request, and 202 without body exactly when the posted message holds
\* notifications only.
C24_PostStatus ==
    out.op = "handle_jsonrpc"
    => /\ out.status = 200 <=> out.ret.kind \in {"single", "array"}
       /\ out.status = 200 => Len(out.ret.items) >= 1
       /\ (HoldsRequest(out.request) /\ ~out.raised) => out.status = 200
       /\ out.status = 202 <=> OnlyNotifications(out.request)
       /\ out.status = 202 => out.ret = RetNull

C24_Witness ==
    /\ out.op = "handle_jsonrpc"
    /\ out.request.top = "array"
    /\ Len(out.request.items) = 2
    /\ OnlyNotifications(out.request)
    /\ out.status = 202
(***************************************************************************)
(* Properties of the loop of the stdio transport (SpecStdio)               *)
(***************************************************************************)
\* the lines that arrived and were not taken by the loop, in their order
Pending == io.buffer \o io.stdin

\* C25: the stdio transport takes the lines in the order of their arrival:
\* the lines handled so far are in that order and came before every line not
\* yet taken, and the responses on stdout are in the order of the lines that
\* produced them.
C25_StdioInOrder ==
    /\ \A i, j \in DOMAIN io.handled : i < j => io.handled[i] < io.handled[j]
    /\ \A i \in DOMAIN io.handled : \A j \in DOMAIN Pending : io.handled[i] < Pending[j].k
    /\ \A i, j \in DOMAIN io.stdout : i < j => io.stdout[i].k < io.stdout[j].k
    /\ \A i \in DOMAIN io.stdout : \E j \in DOMAIN io.handled : io.handled[j] = io.stdout[i].k

\* three lines were handled, two of them read together, and two responses
\* were written
C25_Witness ==
    /\ Len(io.handled) = 3
    /\ Len(io.stdout) = 2
    /\ io.stdout[1].k < io.stdout[2].k

(***************************************************************************)
(* Properties of the internal error of handle_message (Spec)               *)
(***************************************************************************)
\* the levels the logger of the server can have
LogLevels == {"DEBUG", "INFO", "WARNING", "ERROR"}

\* handle_message returned the -32603 response of its own "except Exception"
InternalErrorAtBoundary ==
    /\ Handled
    /\ out.ret.kind = "single"
    /\ TheResponse.hasError
    /\ TheResponse.code = INTERNAL_ERROR
    /\ TheResponse.message = "Internal error"

\* C26: the -32603 response handle_message builds when an exception reaches
\* it has a data member when the logging level is DEBUG, and has none at any
\* other level.
C26_DataOnlyAtDebug ==
    \A level \in LogLevels :
        InternalErrorAtBoundary => (TheResponse.hasData <=> level = "DEBUG")

(***************************************************************************)
(* Properties of get_tools (SpecTools)                                     *)
(***************************************************************************)
\* one descriptor for each skill of the registry that has metadata, in the
\* order of the registry
DescriptorsOf(sk) ==
    LET withMeta == SelectSeq(sk, LAMBDA s : s.hasMeta)
    IN [i \in 1..Len(withMeta) |-> skill_metadata_to_mcp_tool(withMeta[i].name)]

\* C27: get_tools regenerates the list from the registry exactly when no
\* list is cached (tools_cache is None) or refresh is true, with one
\* descriptor per skill that has metadata, in registry order; any other call
\* returns the cached list and leaves the cache as it is.
C27_GetToolsCache ==
    out.op = "get_tools"
    => IF ~out.request.before.set \/ out.request.refresh
       THEN /\ out.ret = DescriptorsOf(skills)
            /\ tools_cache = [set |-> TRUE, tools |-> DescriptorsOf(skills)]
       ELSE /\ out.ret = out.request.before.tools
            /\ tools_cache = out.request.before

\* a call without refresh returned the cached list, the empty one, although
\* the registry has skills with metadata by now
C27_Witness ==
    /\ out.op = "get_tools"
    /\ out.request.before.set
    /\ ~out.request.refresh
    /\ out.ret = <<>>
    /\ DescriptorsOf(skills) # <<>>

(***************************************************************************)
(* Properties of the catalogue of tools (SpecTools)                        *)
(***************************************************************************)

\* the names a client may ask for: those of the skills, and one of no skill
CatalogNames == {s.name : s \in SkillPool} \cup {"ghost"}

\* the name is on the page tools/list answers now (with the default page size
\* one page holds every tool)
Listed(name) ==
    \E r \in {handle_list_tools(skills, config, sessions, tools_cache,
                                ListParams(CurAbsent), IdInt(1))} :
        /\ ~r.raised
        /\ \E i \in 1..Len(r.resp.result.tools) : r.resp.result.tools[i].name = name

\* tools/call with the name does not answer "tool not found"
Accepted(name) ==
    \E r \in {handle_call_tool(skills, sessions, tools_cache,
                               CallParams(name, ArgsAbsent), IdInt(1))} :
        ~(~r.raised /\ r.resp.hasError /\ r.resp.code = METHOD_NOT_FOUND)

\* C35: whatever the registry holds and however it changed, a name is on the
\* tools/list page exactly when tools/call with that name does not answer
\* "tool not found".
C35_ListedIffCallable ==
    \A name \in CatalogNames : Listed(name) <=> Accepted(name)


(***************************************************************************)
(* Properties of the authentication (SpecAuth)                             *)
(***************************************************************************)
\* C28: with http.auth.enabled true and API keys configured, a POST /mcp
\* that presents no valid API key is not dispatched: it executes no tool
\* and creates no session.
C28_NoKeyNoDispatch ==
    [][(/\ out'.op = "handle_jsonrpc"
        /\ out' # out
        /\ config.auth_enabled
        /\ out'.key # "valid")
       => (out'.calls = <<>> /\ sessions' = sessions)]_vars

(***************************************************************************)
(* Properties of the converter of type tokens (SpecConv)                   *)
(***************************************************************************)
\* C29: a Union[...] or Optional[...] token becomes {anyOf: [...]} with one
\* alternative for each member written between the top-level commas, in
\* their order, each the conversion of that member; the commas inside the
\* brackets of a member split nothing.
C29_UnionAnyOf ==
    out.op = "map_type"
    => /\ out.ret.k = "anyOf"
       /\ Len(out.ret.alts) = Len(out.request.members)
       /\ \A i \in 1..Len(out.request.members) :
             out.ret.alts[i] = _map_python_type_to_json_schema(out.request.members[i])

\* Union[Dict[str,int],List[str]] gave exactly two alternatives: an object
\* and an array of strings
C29_Witness ==
    /\ out.op = "map_type"
    /\ out.request.token = <<"Union", "[", "Dict", "[", "str", ",", "int", "]", ",",
                             "List", "[", "str", "]", "]">>
    /\ out.ret.alts = <<TypeSchema("object"),
                        Schema("type", "array", <<TypeSchema("string")>>, <<>>)>>

(***************************************************************************)
(* Properties of the SSE streams (SpecSse)                                 *)
(***************************************************************************)
\* the messages of the data frames of a stream, in the order of the frames
DataOf(emitted) ==
    LET frames == SelectSeq(emitted, LAMBDA f : f.kind = "data")
    IN [i \in 1..Len(frames) |-> frames[i].data]

KeepAlivesOf(emitted) == Len(SelectSeq(emitted, LAMBDA f : f.kind = "keep-alive"))

\* what C30 says of one stream
StreamInOrder(c, conn) ==
    /\ conn.pc = "start" => conn.emitted = <<>>
    /\ conn.pc = "open" => conn.emitted # <<>>
    /\ conn.emitted # <<>>
       => /\ conn.emitted[1] = Frame("connected", c, "")
          /\ \A i \in 2..Len(conn.emitted) : conn.emitted[i].kind # "connected"
    /\ Len(DataOf(conn.emitted)) <= Len(conn.enq)
    /\ DataOf(conn.emitted) = SubSeq(conn.enq, 1, Len(DataOf(conn.emitted)))
    /\ KeepAlivesOf(conn.emitted) = conn.timeouts
    /\ (c \in sse.registry) => conn.pc = "open"

C31_NoLostInitialize ==
    [][\A t \in Threads :
          (thr[t].pc = "store" /\ thr'[t].pc = "idle")
          => Cardinality(DOMAIN sessions') = Cardinality(DOMAIN sessions) + 1]_vars

(***************************************************************************)
(* Properties of the cleanup threads (SpecLife)                            *)
(***************************************************************************)
\* the cleanup threads that have not ended
AliveCleaners == {c \in 1..Len(cleaners) : cleaners[c].pc \notin {"exited", "crashed"}}

\* C32: at any time at most one cleanup task is alive, whatever the sequence
\* of start() and stop() calls.
C32_OneCleanupTask == Cardinality(AliveCleaners) <= 1

(***************************************************************************)
(* Properties of the catch-all error (SpecWire)                            *)
(***************************************************************************)
\* C33: whenever handle_message returns the -32603 response of its
\* "except Exception", with id null, the session table is as it was before
\* the call: a batch that fails part-way leaves no session behind.
C33_FailureLeavesNoSession ==
    [][(/\ out'.op \in {"handle_input", "stdio_line", "handle_jsonrpc"}
        /\ out'.ret = RetSingle(internal_error_response))
       => sessions' = sessions]_vars

(***************************************************************************)
(* Properties of the changes of the session table (SpecFrame)              *)
(***************************************************************************)
\* the keys of the table after the step that are new or hold another record
Written == {k \in DOMAIN sessions' : k \notin DOMAIN sessions \/ sessions'[k] # sessions[k]}

\* C34: ping, tools/list, tools/call, a request with an unknown method and
\* every notification leave the session table as it is: a step that changes
\* it is an initialize request, which adds or replaces one session and
\* removes none, or it is session-close, the cleanup sweep or stop(), which
\* remove sessions and write none.
C34_OnlyInitializeWrites ==
    [][sessions' # sessions
       => \/ /\ out'.op = "handle_message"
             /\ out'.request.hasId
             /\ out'.request.method = "initialize"
             /\ DOMAIN sessions \subseteq DOMAIN sessions'
             /\ Cardinality(Written) = 1
          \/ /\ out'.op \in {"session_close", "cleanup", "stop"}
             /\ DOMAIN sessions' \subseteq DOMAIN sessions
             /\ Written = {}]_vars

\* a tools/call has run a tool on a server that holds a session
C34_Witness ==
    /\ out.op = "handle_message"
    /\ out.request.method = "tools/call"
    /\ out.calls # <<>>
    /\ DOMAIN sessions # {}

(***************************************************************************)
(* The session table and the answers (SpecFrame)                           *)
(***************************************************************************)
\* the session tables of a server no client initialized, and of one that
\* holds only sessions that expired before t
OtherSessionTables(t) ==
    {EmptySessions,
     [k \in 1..MaxSessions |-> SessionRecord(k, NoClient, t - SessionTimeout - 1)]}

\* C38: the answer to ping, tools/list and tools/call does not depend on the
\* session table: a server with the same registry, configuration and tools
\* cache whose table is empty or holds only expired sessions returns the same
\* to the same message.
C38_ResponseIgnoresSessions ==
    [][(/\ out'.op = "handle_message"
        /\ out'.request.method \in {"ping", "tools/list", "tools/call"})
       => \A other \in OtherSessionTables(now) :
             out'.ret = handle_message(skills, config, other, tools_cache,
                                       out'.request, now).ret]_vars

\* tools/list was answered by a server that holds a session that has not
\* expired
C38_Witness ==
    /\ out.op = "handle_message"
    /\ out.request.hasId
    /\ out.request.method = "tools/list"
    /\ out.ret.kind = "single"
    /\ out.ret.items[1].hasResult
    /\ \E k \in DOMAIN sessions : sessions[k].expires_at >= now

====
